---- MODULE Spec2Model ----
(***************************************************************************)
(* Verification model of the ball-detection core of pitrac-light.          *)
(*                                                                         *)
(* Lengths are kept in half-pixel units (a real value v is stored as 2v),  *)
(* so that the source's std::round() calls are real conversions.           *)
(* The Hough accumulator threshold param2 is kept in units of one          *)
(* configured step grid (integers).                                        *)
(***************************************************************************)
EXTENDS Integers, Sequences, FiniteSets, TLC

\* ---------------------------------------------------------------- bounds
\* largest configured max_param2 (min_param2 is fixed at MinParam2Cfg)
MaxParam2Cfg == 4
\* largest configured param2_increment
MaxIncrementCfg == 2
\* largest configured circle-count window bound
MaxCircleWindow == 2
\* number of circle candidates the image holds
HoughPoolSize == 4
\* cap on the number of adaptive-loop iterations explored
MaxIter == 6
\* width of the test image in pixels (its height is one pixel)
ImageWidth == 2

\* ------------------------------------------------------ generic helpers
Max(a, b) == IF a >= b THEN a ELSE b

Min(a, b) == IF a <= b THEN a ELSE b

\* ceil(a / b) for a >= 0, b > 0
CeilDiv(a, b) == (a + b - 1) \div b

\* std::round on a non-negative value held in half units: halves go up
Round(h) == (h + 1) \div 2

\* all sequences over S of length at most n
SeqsUpTo(S, n) == UNION {[1..k -> S] : k \in 0..n}

\* the sequence s without its element at position k
RemoveAt(s, k) == [j \in 1..(Len(s) - 1) |-> IF j < k THEN s[j] ELSE s[j + 1]]

\* ------------------------------------------------------------ variables
VARIABLES
    pc,                         \* position inside GetBall
    cfg,                        \* the mode bundle read from the configuration statics
    search_mode,                \* GetBall argument
    img_empty,                  \* GetBall argument: img.empty()
    expectedBallArea,           \* GetBall argument: [x, y, width, height]
    colorExists,                \* expectedBallColorExists of FilterAndScoreCandidates
    return_balls,               \* GetBall in/out argument
    result,                     \* GetBall's return value once returned
    sub,                        \* searched region: [ox, oy, w, h]
    currentParam2,
    currentlyLooseningSearch,
    circles,
    finalNumberOfFoundCircles,
    done,
    iterations,                 \* number of Hough invocations so far
    lastStep,                   \* what the last loop iteration did
    dedupInput,                 \* the list handed to RemoveSmallestConcentricCircles
    dedupCircles,               \* the same vector, modified in place
    dedupDone,                  \* RemoveSmallestConcentricCircles has returned
    boxes,                      \* SingleClassNMS argument
    confidences,                \* SingleClassNMS argument
    conf_threshold,             \* SingleClassNMS argument
    nms_threshold,              \* SingleClassNMS argument, <<numerator, denominator>>
    indices,                    \* SingleClassNMS return value
    nmsDone,                    \* SingleClassNMS has returned
    kONNXBackend,               \* configuration static
    kONNXRuntimeAutoFallback,   \* configuration static
    onnx_detector_initialized_, \* the atomic flag
    onnx_detector_,             \* the handle: "null", "constructed" or "ready"
    yolo_model_loaded_,         \* the fallback backend's model is loaded
    handlesConstructed,         \* number of ONNXRuntimeDetector objects made so far
    calls,                      \* number of neural entry-point calls so far
    attempted,                  \* backends the last DetectBallsONNX call ran, in order
    backendOk,                  \* what each of them returned
    dispatchResult,             \* what the last DetectBallsONNX call returned
    threadPc,                   \* per thread: position inside its neural entry point
    threadOp,                   \* per thread: the entry point it is running
    threadCalls,                \* per thread: entry-point calls begun so far
    onnx_detector_mutex_,       \* the thread holding the mutex, 0 when free
    constructedBy,              \* threads that have run the construction section
    fastPathTaken,              \* threads whose current call read the flag as set at once
    initSucceeded,              \* number of successful Initialize() calls
    waitPc,                     \* position inside WaitForBallMovement
    waitTimeSecs,               \* WaitForBallMovement argument
    min_area,                   \* (int)pow(ball radius, 2)
    waitElapsed,                \* wall-clock time since timer1 started
    startupFrameCount,
    frameLoopCount,             \* polls so far, kept modulo FrameCountWidth
    firstFrameEmpty,            \* firstFrame.empty()
    foundMotion,
    waitResult,                 \* WaitForBallMovement's return value, once returned
    exitReason,                 \* the exit WaitForBallMovement left through
    motionFrames,               \* compared frames so far that showed motion
    input_lowerHsv,             \* GetColorMaskImage argument: [h, s, v]
    input_upperHsv,             \* GetColorMaskImage argument: [h, s, v]
    wideningAmount,             \* GetColorMaskImage argument
    hsvPixel,                   \* one pixel of hsvImage: [h, s, v]
    color_mask_image_,          \* the mask value returned for that pixel
    maskDone,                   \* GetColorMaskImage has returned
    img1,                       \* CompareRotationImage argument: uchar pixels
    img2,                       \* CompareRotationImage argument: Vec2i pixels <<z, value>>
    compareResult,              \* the returned Vec2i: <<score, totalPixelsExamined>>
    compareDone,                \* CompareRotationImage has returned
    gaborPc,                    \* position inside GetBallRotation's two filter calls
    calibrated_binary_threshold, \* GetBallRotation's local, in half units
    prior_binary_threshold,     \* ApplyGaborFilterToBall argument, in half units
    binary_threshold,           \* ApplyGaborFilterToBall's local, in half units
    white_percent,              \* what the last ApplyTestGaborFilter reported
    ratheting_threshold_down,
    dimpleThreshold,            \* per ball: the threshold its returned image was made with
    adaptedBall,                \* per ball: the call ran the adaptation block
    search_space,               \* ComputeCandidateAngleImages argument
    output_candidate_elements_mat_size, \* the reserved sizes <<xSize, ySize, zSize>>
    output_candidates,          \* the rotation triples pushed, in order
    anglesDone,                 \* ComputeCandidateAngleImages has returned
    rotPc,                      \* position inside GetBallRotation's search
    initialSearchSpace,         \* the coarse grid read from the configuration statics
    spin_offset_angle,          \* <<x, y>> perspective offsets, in degrees
    best_candidate_index,       \* what the last CompareCandidateAngleImages returned
    coarseWinner,               \* the rotation of the coarse winner, <<>> while there is none
    rotationResult,             \* GetBallRotation's return value
    cannyPc,                    \* position inside FindLargestEllipse
    lowThresh,
    highThresh,
    cannyIterations,
    edgeDetectDone,
    edgeDetectionFailed,
    cannyLoops,                 \* passes through the tuning loop so far
    ellipseReturned,            \* what FindLargestEllipse returned: "none", "empty", "fitted"
    scoreCircles,               \* FilterAndScoreCandidates argument: the Hough circles
    scoreColour,                \* the colour distance the image gives each circle
    scoreMode,                  \* FilterAndScoreCandidates argument
    scoreColorExists,           \* expectedBallColorExists
    foundList,                  \* foundCircleList after the scoring loop
    finalList,                  \* finalCandidates
    rankedBalls,                \* return_balls on a true return
    scoreResult,                \* FilterAndScoreCandidates's return value
    scoreDone,                  \* FilterAndScoreCandidates has returned
    sahiPath,                   \* the backend entry point running the tiled path
    kSAHISliceWidth,            \* configuration static
    kSAHISliceHeight,           \* configuration static
    kSAHIOverlapRatio,          \* configuration static, in units of 1 / RatioDen
    sahiImage,                  \* cols and rows of input_image
    sceneBalls,                 \* the balls in the image
    sliceX,                     \* x of the tile loops
    sliceY,                     \* y of the tile loops
    slices,                     \* the tile rectangles made so far
    sahiPc,                     \* position in the tiled path
    mergedDetections,           \* the detections of all tiles in image coordinates
    sahiDetections,             \* the detections handed back
    sahiResult,
    parPc,                      \* position in the projection and comparison of candidates
    candGrid,                   \* candidate_elements_mat_size
    projCandidate,              \* the candidate Project2dImageTo3dBall is called for
    projStatic,                 \* the candidate whose angles the projectionOp statics hold
    rowsTodo,                   \* image rows the bulk-apply has not started
    rowsActive,                 \* image rows a worker is applying projectionOp to
    cmpStaticSet,               \* ImgComparisonOp::setup has run
    linesTodo,                  \* lines of the candidate matrix not started
    cmpActive,                  \* candidate matrix elements inside ImgComparisonOp
    candidatesCompared,
    isoImage,                   \* cols and rows of the image handed to IsolateBall
    isoBall,                    \* the ball on entry: x, y and radius in RadiusUnit-ths
    isoBallAfter,               \* the ball's x and y on return
    isoOffset,                  \* offset_sub_to_full of the extracted sub-image
    isoDone

hbVars == <<pc, cfg, search_mode, img_empty, expectedBallArea, colorExists,
            return_balls, result, sub, currentParam2, currentlyLooseningSearch,
            circles, finalNumberOfFoundCircles, done, iterations, lastStep>>

ddVars == <<dedupInput, dedupCircles, dedupDone>>

nmsVars == <<boxes, confidences, conf_threshold, nms_threshold, indices, nmsDone>>

nnVars == <<kONNXBackend, kONNXRuntimeAutoFallback, onnx_detector_initialized_,
            onnx_detector_, yolo_model_loaded_, handlesConstructed, calls,
            attempted, backendOk, dispatchResult>>

raceVars == <<threadPc, threadOp, threadCalls, onnx_detector_mutex_,
              constructedBy, fastPathTaken, initSucceeded>>

waitVars == <<waitPc, waitTimeSecs, min_area, waitElapsed, startupFrameCount,
              frameLoopCount, firstFrameEmpty, foundMotion, waitResult, exitReason, motionFrames>>

maskVars == <<input_lowerHsv, input_upperHsv, wideningAmount, hsvPixel,
              color_mask_image_, maskDone>>

cmpVars == <<img1, img2, compareResult, compareDone>>

gaborVars == <<gaborPc, calibrated_binary_threshold, prior_binary_threshold,
               binary_threshold, white_percent, ratheting_threshold_down,
               dimpleThreshold, adaptedBall>>

angleVars == <<search_space, output_candidate_elements_mat_size,
               output_candidates, anglesDone>>

rotVars == <<rotPc, initialSearchSpace, spin_offset_angle, best_candidate_index,
             coarseWinner, rotationResult>>

spinVars == <<gaborVars, angleVars, rotVars>>

cannyVars == <<cannyPc, lowThresh, highThresh, cannyIterations, edgeDetectDone,
               edgeDetectionFailed, cannyLoops, ellipseReturned>>

scoreVars == <<scoreCircles, scoreColour, scoreMode, scoreColorExists, foundList,
               finalList, rankedBalls, scoreResult, scoreDone>>

sahiVars == <<sahiPath, kSAHISliceWidth, kSAHISliceHeight, kSAHIOverlapRatio,
              sahiImage, sceneBalls, sliceX, sliceY, slices, sahiPc,
              mergedDetections, sahiDetections, sahiResult>>

parVars == <<parPc, candGrid, projCandidate, projStatic, rowsTodo, rowsActive,
             cmpStaticSet, linesTodo, cmpActive, candidatesCompared>>

isoVars == <<isoImage, isoBall, isoBallAfter, isoOffset, isoDone>>

lateVars == <<cannyVars, scoreVars, sahiVars, parVars, isoVars>>

\* for each subsystem, the variables of the other subsystems
raceOthers == <<hbVars, ddVars, nmsVars, waitVars, maskVars, cmpVars, spinVars, lateVars>>
waitOthers == <<hbVars, ddVars, nmsVars, nnVars, raceVars, maskVars, cmpVars, spinVars, lateVars>>
maskOthers == <<hbVars, ddVars, nmsVars, nnVars, raceVars, waitVars, cmpVars, spinVars, lateVars>>
cmpOthers == <<hbVars, ddVars, nmsVars, nnVars, raceVars, waitVars, maskVars, spinVars, lateVars>>
gaborOthers == <<hbVars, ddVars, nmsVars, nnVars, raceVars, waitVars, maskVars, cmpVars,
                 angleVars, rotVars, lateVars>>
angleOthers == <<hbVars, ddVars, nmsVars, nnVars, raceVars, waitVars, maskVars, cmpVars,
                 gaborVars, rotVars, lateVars>>
rotOthers == <<hbVars, ddVars, nmsVars, nnVars, raceVars, waitVars, maskVars, cmpVars,
               gaborVars, angleVars, lateVars>>

cannyOthers ==
  <<hbVars, ddVars, nmsVars, nnVars, raceVars, waitVars, maskVars, cmpVars,
    spinVars, scoreVars, sahiVars, parVars, isoVars>>

scoreOthers ==
  <<hbVars, ddVars, nmsVars, nnVars, raceVars, waitVars, maskVars, cmpVars,
    spinVars, cannyVars, sahiVars, parVars, isoVars>>

sahiOthers ==
  <<hbVars, ddVars, nmsVars, nnVars, raceVars, waitVars, maskVars, cmpVars,
    spinVars, cannyVars, scoreVars, parVars, isoVars>>

parOthers ==
  <<hbVars, ddVars, nmsVars, nnVars, raceVars, waitVars, maskVars, cmpVars,
    spinVars, cannyVars, scoreVars, sahiVars, isoVars>>

isoOthers ==
  <<hbVars, ddVars, nmsVars, nnVars, raceVars, waitVars, maskVars, cmpVars,
    spinVars, cannyVars, scoreVars, sahiVars, parVars>>

extVars == <<raceVars, waitVars, maskVars, cmpVars, spinVars, lateVars>>

\* ----------------------------------------------------- circle utilities
\* a circle is [x, y, r], each in half pixels

\* CvUtils::CircleXY: the integer centre of a circle
CircleXY(c) == <<Round(c.x), Round(c.y)>>

\* the integer radius RemoveSmallestConcentricCircles compares
IntRadius(c) == Round(c.r)

\* the test that decides which of two concentric circles is erased:
\* TRUE erases the later circle, FALSE erases the earlier one
OtherIsNotLarger(current, other) == IntRadius(other) <= IntRadius(current)

RECURSIVE ConcentricInner(_, _, _)
RECURSIVE ConcentricOuter(_, _)

\* the inner loop without the step back after erasing the current circle
ConcentricInnerNoStepBack(cs, i, j) ==
    IF j <= i THEN ConcentricOuter(cs, i + 1)
    ELSE IF CircleXY(cs[i]) = CircleXY(cs[j])
         THEN IF OtherIsNotLarger(cs[i], cs[j])
              THEN ConcentricInner(RemoveAt(cs, j), i, j - 1)
              ELSE ConcentricOuter(RemoveAt(cs, i), i + 1)
         ELSE ConcentricInner(cs, i, j - 1)

\* the inner loop of RemoveSmallestConcentricCircles, j running downwards
ConcentricInner(cs, i, j) ==
    IF j <= i THEN ConcentricOuter(cs, i + 1)
    ELSE IF CircleXY(cs[i]) = CircleXY(cs[j])
         THEN IF OtherIsNotLarger(cs[i], cs[j])
              THEN ConcentricInner(RemoveAt(cs, j), i, j - 1)
              ELSE ConcentricOuter(RemoveAt(cs, i), i)
         ELSE ConcentricInner(cs, i, j - 1)

\* the outer loop of RemoveSmallestConcentricCircles (positions are 1-based)
ConcentricOuter(cs, i) ==
    IF i < Len(cs) THEN ConcentricInner(cs, i, Len(cs)) ELSE cs

\* HoughDetector::RemoveSmallestConcentricCircles
RemoveSmallestConcentricCircles(cs) == ConcentricOuter(cs, 1)

\* ----------------------------------------------------- search strategy
\* SearchStrategy::Mode
Modes == {"kUnknown", "kFindPlacedBall", "kStrobed", "kExternallyStrobed", "kPutting"}

\* smallest configured min_param2
MinParam2Cfg == 1

\* the values the configuration statics of one mode can hold
ConfigSpace ==
    {c \in [starting_param2 : MinParam2Cfg..MaxParam2Cfg,
            min_param2 : {MinParam2Cfg},
            max_param2 : {MaxParam2Cfg},
            param2_increment : 1..MaxIncrementCfg,
            min_hough_return_circles : 1..MaxCircleWindow,
            max_hough_return_circles : 1..MaxCircleWindow] :
        /\ c.min_param2 <= c.starting_param2
        /\ c.starting_param2 <= c.max_param2
        /\ c.min_hough_return_circles <= c.max_hough_return_circles}

\* SearchStrategy::GetParamsForMode: every mode copies its own statics into
\* the bundle; an unknown mode yields the placed-ball bundle
GetParamsForMode(mode, statics) ==
    IF mode \in {"kFindPlacedBall", "kStrobed", "kExternallyStrobed", "kPutting"}
    THEN statics[mode]
    ELSE statics["kFindPlacedBall"]

\* --------------------------------------------------------- sub-image
\* cv::Rect tl() and br()
RectIsZero(r) == r.x = 0 /\ r.y = 0 /\ r.x + r.width = 0 /\ r.y + r.height = 0

\* CvUtils::GetSubImage: the rectangle clamped to the image, and its origin
GetSubImage(w, h, r) ==
    LET x0 == Max(0, Min(r.x, w))
        y0 == Max(0, Min(r.y, h))
        x1 == Max(x0, Min(r.x + r.width, w))
        y1 == Max(y0, Min(r.y + r.height, h))
    IN [ox |-> x0, oy |-> y0, w |-> x1 - x0, h |-> y1 - y0]

\* the region the Hough transform is run on (facade step 7)
SearchRegion(w, h, area) ==
    IF ~RectIsZero(area) THEN GetSubImage(w, h, area)
    ELSE [ox |-> 0, oy |-> 0, w |-> w, h |-> h]


\* ------------------------------------------------- adaptive Hough loop
\* The circles the image can yield: candidate k of the accumulator ranking
\* sits at a centre inside the image (which is one pixel high) and has a
\* radius around the candidate-radius limit.
HoughRadii == <<18, 22, 21, 22, 20>>

HoughCandidate(k) ==
    [x |-> (k - 1) % (2 * ImageWidth), y |-> 0, r |-> HoughRadii[((k - 1) % 5) + 1]]

\* the candidates whose centre lies inside the searched region, in
\* ranking order, with their centre expressed in region coordinates
RegionCandidates(region) ==
    LET inside(c) == /\ c.x >= 2 * region.ox
                     /\ c.x <= 2 * (region.ox + region.w) - 1
        shifted(c) == [c EXCEPT !.x = c.x - 2 * region.ox, !.y = c.y - 2 * region.oy]
        all == SelectSeq([k \in 1..HoughPoolSize |-> HoughCandidate(k)], inside)
    IN [k \in 1..Len(all) |-> shifted(all[k])]

\* the sub-list of seq at the positions in the set keep
SubList(seq, keep) == SelectSeq([k \in 1..Len(seq) |-> [pos |-> k, val |-> seq[k]]],
                                LAMBDA e : e.pos \in keep)

\* what cv::HoughCircles can return on a region: any sub-list of the
\* candidates, depending on param2 and the image content
HoughOutputs(region) ==
    LET cand == RegionCandidates(region)
    IN {[k \in 1..Len(SubList(cand, keep)) |-> SubList(cand, keep)[k].val] :
            keep \in SUBSET (1..Len(cand))}


\* a tightening step of two increments
TightenStepTwice(st, params, test_circles) ==
    [st EXCEPT !.circles = test_circles,
               !.currentParam2 = st.currentParam2 + 2 * params.param2_increment,
               !.currentlyLooseningSearch = FALSE,
               !.step = "tighten"]

\* the "too many circles" branch taken when the ceiling test fails
TightenStep(st, params, test_circles) ==
    [st EXCEPT !.circles = test_circles,
               !.currentParam2 = st.currentParam2 + params.param2_increment,
               !.currentlyLooseningSearch = FALSE,
               !.step = "tighten"]

\* the "found some but not enough" branch
LoosenWithCircles(st, params, test_circles) ==
    IF st.currentParam2 <= params.min_param2
    THEN [st EXCEPT !.circles = test_circles,
                    !.finalNumberOfFoundCircles = Len(test_circles),
                    !.done = TRUE,
                    !.step = "accept_floor"]
    ELSE [st EXCEPT !.currentParam2 = st.currentParam2 - params.param2_increment,
                    !.currentlyLooseningSearch = TRUE,
                    !.circles = test_circles,
                    !.step = "loosen"]

\* one iteration of the while (!done) loop of GetBallHough, given what
\* cv::HoughCircles returned
LoopIteration(st, params, hough_circles) ==
    LET priorNumCircles == Len(st.circles)
        test_circles == RemoveSmallestConcentricCircles(hough_circles)
        numCircles == Len(test_circles)
    IN  IF /\ numCircles >= params.min_hough_return_circles
           /\ numCircles <= params.max_hough_return_circles
        THEN [st EXCEPT !.circles = test_circles,
                        !.finalNumberOfFoundCircles = numCircles,
                        !.done = TRUE,
                        !.step = "accept_window"]
        ELSE IF numCircles > params.max_hough_return_circles
        THEN IF priorNumCircles = 0 /\ st.currentParam2 # params.starting_param2
             THEN [st EXCEPT !.circles = test_circles,
                             !.finalNumberOfFoundCircles = numCircles,
                             !.done = TRUE,
                             !.step = "accept_after_none"]
             ELSE IF st.currentParam2 >= params.max_param2
             THEN [st EXCEPT !.circles = test_circles,
                             !.finalNumberOfFoundCircles = numCircles,
                             !.done = TRUE,
                             !.step = "accept_ceiling"]
             ELSE TightenStep(st, params, test_circles)
        ELSE IF numCircles = 0 /\ priorNumCircles = 0
        THEN IF st.currentParam2 <= params.min_param2
             THEN [st EXCEPT !.done = TRUE, !.step = "fail"]
             ELSE [st EXCEPT !.currentParam2 = st.currentParam2 - params.param2_increment,
                             !.currentlyLooseningSearch = TRUE,
                             !.step = "loosen"]
        ELSE IF \/ (numCircles > 0 /\ numCircles < params.min_hough_return_circles
                    /\ priorNumCircles = 0)
                \/ st.currentlyLooseningSearch
        THEN LoosenWithCircles(st, params, test_circles)
        ELSE IF numCircles = 0 /\ priorNumCircles > 0
        THEN [st EXCEPT !.finalNumberOfFoundCircles = priorNumCircles,
                        !.done = TRUE,
                        !.step = "return_prior"]
        ELSE [st EXCEPT !.step = "none"]


\* ------------------------------------------- candidate filter and score
MIN_BALL_CANDIDATE_RADIUS == 10

CANDIDATE_BALL_COLOR_TOLERANCE == 50

MAX_CIRCLES_TO_EVALUATE == 200

\* values of rgb_avg_diff^2 + 20 * rgb_std_diff^2 that the image can give a
\* candidate (CvUtils::GetBallColorRgb and CvUtils::ColorDistance)
ColorScores == {0, 2000000}

\* the ordering penalty 200 * (10 i)^3 of the i-th circle
OrderingPenalty(i) == 200 * (10 * i) * (10 * i) * (10 * i)

\* the injective maps of 1..n onto itself
Perms(n) == {f \in [1..n -> 1..n] : \A a, b \in 1..n : a # b => f[a] # f[b]}

\* the comparator of the sort by colour score
ScoreBefore(a, b) == a.calculated_color_difference < b.calculated_color_difference

\* the comparator of the strobed sort, largest radius first
RadiusBefore(a, b) == a.found_radius > b.found_radius

\* what std::sort can leave under the comparator before: a rearrangement
\* in which no element is followed by one the comparator puts before it.
\* before[a][b] is the comparator applied to seq[a] and seq[b].
SortOutcomes(seq, before) ==
    {[k \in 1..Len(seq) |-> seq[f[k]]] : f \in
        {g \in Perms(Len(seq)) :
            \A k \in 1..(Len(seq) - 1) : ~before[g[k + 1]][g[k]]}}

\* the scoring loop of FilterAndScoreCandidates: one element per circle
\* that is within the evaluation budget and not too small
FoundCircleList(cs, colour, scoring) ==
    LET Element(i) ==
            [index |-> i,
             circle |-> cs[i],
             found_radius |-> Round(cs[i].r),
             calculated_color_difference |->
                 IF scoring THEN colour[i] + OrderingPenalty(i) ELSE 0]
        all == [i \in 1..Len(cs) |-> Element(i)]
        Kept(e) == /\ e.index <= MAX_CIRCLES_TO_EVALUATE
                   /\ ~(e.found_radius < MIN_BALL_CANDIDATE_RADIUS)
    IN SelectSeq(all, Kept)

\* the candidate orders FilterAndScoreCandidates can end with
FinalCandidates(found, mode, expectedBallColorExists) ==
    IF mode = "kStrobed" /\ expectedBallColorExists
    THEN LET maxRGBDistance == found[1].calculated_color_difference
                                 + CANDIDATE_BALL_COLOR_TOLERANCE
             Tolerated(e) == e.calculated_color_difference <= maxRGBDistance
             kept == SelectSeq(found, Tolerated)
         IN SortOutcomes(kept, [a \in 1..Len(kept) |-> [b \in 1..Len(kept) |->
                                   RadiusBefore(kept[a], kept[b])]])
    ELSE IF mode # "kStrobed" /\ expectedBallColorExists
    THEN SortOutcomes(found, [a \in 1..Len(found) |-> [b \in 1..Len(found) |->
                                 ScoreBefore(found[a], found[b])]])
    ELSE {found}

\* the GolfBall objects built from the final candidates
BallsOf(final) ==
    [k \in 1..Len(final) |->
        [quality_ranking |-> k - 1,
         circle |-> final[k].circle,
         measured_radius_pixels |-> final[k].found_radius]]

\* BallDetectorFacade::FilterAndScoreCandidates: the set of (return value,
\* return_balls) pairs it can produce; balls is return_balls on entry
FilterAndScoreCandidates(cs, balls, mode, expectedBallColorExists, colour) ==
    LET scoring == expectedBallColorExists \/ mode = "kPutting"
        found == FoundCircleList(cs, colour, scoring)
    IN  IF cs = <<>> THEN {[ok |-> FALSE, balls |-> balls]}
        ELSE IF found = <<>> THEN {[ok |-> FALSE, balls |-> balls]}
        ELSE {IF final = <<>> THEN [ok |-> FALSE, balls |-> balls]
                              ELSE [ok |-> TRUE, balls |-> BallsOf(final)] :
                 final \in FinalCandidates(found, mode, expectedBallColorExists)}

\* a translation that forgets the horizontal offset
TranslateToFullOnlyY(cs, region) ==
    [k \in 1..Len(cs) |-> [cs[k] EXCEPT !.y = cs[k].y + 2 * region.oy]]

\* the translation of the circles back to full-image coordinates
TranslateToFull(cs, region) ==
    [k \in 1..Len(cs) |->
        [cs[k] EXCEPT !.x = cs[k].x + 2 * region.ox, !.y = cs[k].y + 2 * region.oy]]


\* ------------------------------------------------------------- GetBall
\* what return_balls can hold when GetBall is called
StaleBall == [quality_ranking |-> 0,
              circle |-> [x |-> 0, y |-> 0, r |-> 22],
              measured_radius_pixels |-> 11]

\* the expected-ball areas GetBall is called with: the zero rectangle
\* (whole image) and a region that overhangs the right image border
ExpectedAreas ==
    {[x |-> 0, y |-> 0, width |-> 0, height |-> 0],
     [x |-> 1, y |-> 0, width |-> ImageWidth, height |-> 1]}

\* the variables of GetBall while no call is modelled
GetBallIdle ==
    /\ pc = "idle"
    /\ cfg = <<>>
    /\ search_mode = "kUnknown"
    /\ img_empty = FALSE
    /\ expectedBallArea = [x |-> 0, y |-> 0, width |-> 0, height |-> 0]
    /\ colorExists = FALSE
    /\ return_balls = <<>>
    /\ result = "none"
    /\ sub = [ox |-> 0, oy |-> 0, w |-> 0, h |-> 0]
    /\ currentParam2 = 0
    /\ currentlyLooseningSearch = FALSE
    /\ circles = <<>>
    /\ finalNumberOfFoundCircles = 0
    /\ done = FALSE
    /\ iterations = 0
    /\ lastStep = "start"

\* the variables of RemoveSmallestConcentricCircles while it is not modelled
DedupIdle ==
    /\ dedupInput = <<>>
    /\ dedupCircles = <<>>
    /\ dedupDone = FALSE

\* the variables of SingleClassNMS while it is not modelled
NmsIdle ==
    /\ boxes = <<>>
    /\ confidences = <<>>
    /\ conf_threshold = 0
    /\ nms_threshold = <<1, 2>>
    /\ indices = <<>>
    /\ nmsDone = FALSE

\* the neural detector's statics before any neural call
NeuralIdle ==
    /\ kONNXBackend = "onnxruntime"
    /\ kONNXRuntimeAutoFallback = TRUE
    /\ onnx_detector_initialized_ = FALSE
    /\ onnx_detector_ = "null"
    /\ yolo_model_loaded_ = FALSE
    /\ handlesConstructed = 0
    /\ calls = 0
    /\ attempted = <<>>
    /\ backendOk = <<>>
    /\ dispatchResult = "none"

\* number of threads calling the neural entry points
NumThreads == 2

Threads == 1..NumThreads

\* no thread is inside a neural entry point
RaceIdle ==
    /\ threadPc = [t \in Threads |-> "idle"]
    /\ threadOp = [t \in Threads |-> "none"]
    /\ threadCalls = [t \in Threads |-> 0]
    /\ onnx_detector_mutex_ = 0
    /\ constructedBy = {}
    /\ fastPathTaken = {}
    /\ initSucceeded = 0

\* WaitForBallMovement has not been called
WaitIdle ==
    /\ waitPc = "idle"
    /\ waitTimeSecs = 0
    /\ min_area = 0
    /\ waitElapsed = 0
    /\ startupFrameCount = 0
    /\ frameLoopCount = 0
    /\ firstFrameEmpty = TRUE
    /\ foundMotion = FALSE
    /\ waitResult = FALSE
    /\ exitReason = "none"
    /\ motionFrames = 0

\* GetColorMaskImage has not been called
MaskIdle ==
    /\ input_lowerHsv = [h |-> 0, s |-> 0, v |-> 0]
    /\ input_upperHsv = [h |-> 0, s |-> 0, v |-> 0]
    /\ wideningAmount = 0
    /\ hsvPixel = [h |-> 0, s |-> 0, v |-> 0]
    /\ color_mask_image_ = 0
    /\ maskDone = FALSE

\* the core subsystems at rest
CoreIdle == GetBallIdle /\ DedupIdle /\ NmsIdle /\ NeuralIdle

\* CompareRotationImage has not been called
CompareIdle ==
    /\ img1 = <<>>
    /\ img2 = <<>>
    /\ compareResult = <<0, 0>>
    /\ compareDone = FALSE

\* GetBallRotation has not reached its filter calls
GaborIdle ==
    /\ gaborPc = "idle"
    /\ calibrated_binary_threshold = 0
    /\ prior_binary_threshold = 0
    /\ binary_threshold = 0
    /\ white_percent = 0
    /\ ratheting_threshold_down = FALSE
    /\ dimpleThreshold = <<0, 0>>
    /\ adaptedBall = <<FALSE, FALSE>>

\* an axis of a search space: first angle, last angle, step
Axis(start, end, increment) == [start |-> start, end |-> end, increment |-> increment]

\* ComputeCandidateAngleImages has not been called
AnglesIdle ==
    /\ search_space = [x |-> Axis(0, 0, 1), y |-> Axis(0, 0, 1), z |-> Axis(0, 0, 1)]
    /\ output_candidate_elements_mat_size = <<0, 0, 0>>
    /\ output_candidates = <<>>
    /\ anglesDone = FALSE

\* GetBallRotation has not reached its search
RotationIdle ==
    /\ rotPc = "idle"
    /\ initialSearchSpace = [x |-> Axis(0, 0, 1), y |-> Axis(0, 0, 1), z |-> Axis(0, 0, 1)]
    /\ spin_offset_angle = <<0, 0>>
    /\ best_candidate_index = -1
    /\ coarseWinner = <<>>
    /\ rotationResult = <<0, 0, 0>>

\* the spin-analysis subsystems at rest
SpinIdle == GaborIdle /\ AnglesIdle /\ RotationIdle

\* FindLargestEllipse has not been called
CannyIdle ==
    /\ cannyPc = "idle"
    /\ lowThresh = 0
    /\ highThresh = 0
    /\ cannyIterations = 0
    /\ edgeDetectDone = FALSE
    /\ edgeDetectionFailed = FALSE
    /\ cannyLoops = 0
    /\ ellipseReturned = "none"

\* FilterAndScoreCandidates has not been called on its own
ScoreIdle ==
    /\ scoreCircles = <<>>
    /\ scoreColour = <<>>
    /\ scoreMode = "kUnknown"
    /\ scoreColorExists = FALSE
    /\ foundList = <<>>
    /\ finalList = <<>>
    /\ rankedBalls = <<>>
    /\ scoreResult = FALSE
    /\ scoreDone = FALSE

\* the tiled neural path has not been entered
SahiIdle ==
    /\ sahiPath = "none"
    /\ kSAHISliceWidth = 0
    /\ kSAHISliceHeight = 0
    /\ kSAHIOverlapRatio = 0
    /\ sahiImage = [cols |-> 0, rows |-> 0]
    /\ sceneBalls = {}
    /\ sliceX = 0
    /\ sliceY = 0
    /\ slices = <<>>
    /\ sahiPc = "idle"
    /\ mergedDetections = <<>>
    /\ sahiDetections = <<>>
    /\ sahiResult = "none"

\* no candidate is being projected or candidatesCompared
ParIdle ==
    /\ parPc = "idle"
    /\ candGrid = <<0, 0, 0>>
    /\ projCandidate = 0
    /\ projStatic = -1
    /\ rowsTodo = {}
    /\ rowsActive = {}
    /\ cmpStaticSet = FALSE
    /\ linesTodo = {}
    /\ cmpActive = {}
    /\ candidatesCompared = {}

\* IsolateBall has not been called
IsoIdle ==
    /\ isoImage = [cols |-> 0, rows |-> 0]
    /\ isoBall = [x |-> 0, y |-> 0, radius |-> 0]
    /\ isoBallAfter = [x |-> 0, y |-> 0]
    /\ isoOffset = [x |-> 0, y |-> 0]
    /\ isoDone = FALSE

\* the remaining subsystems at rest
LateIdle == CannyIdle /\ ScoreIdle /\ SahiIdle /\ ParIdle /\ IsoIdle

\* for each subsystem, the other subsystems at rest
RaceOthersIdle == CoreIdle /\ WaitIdle /\ MaskIdle /\ CompareIdle /\ SpinIdle /\ LateIdle
WaitOthersIdle == CoreIdle /\ RaceIdle /\ MaskIdle /\ CompareIdle /\ SpinIdle /\ LateIdle
MaskOthersIdle == CoreIdle /\ RaceIdle /\ WaitIdle /\ CompareIdle /\ SpinIdle /\ LateIdle
CompareOthersIdle == CoreIdle /\ RaceIdle /\ WaitIdle /\ MaskIdle /\ SpinIdle /\ LateIdle
GaborOthersIdle ==
    CoreIdle /\ RaceIdle /\ WaitIdle /\ MaskIdle /\ CompareIdle /\ AnglesIdle /\ RotationIdle
        /\ LateIdle
AnglesOthersIdle ==
    CoreIdle /\ RaceIdle /\ WaitIdle /\ MaskIdle /\ CompareIdle /\ GaborIdle /\ RotationIdle
        /\ LateIdle
RotationOthersIdle ==
    CoreIdle /\ RaceIdle /\ WaitIdle /\ MaskIdle /\ CompareIdle /\ GaborIdle /\ AnglesIdle
        /\ LateIdle

CannyOthersIdle ==
    CoreIdle /\ RaceIdle /\ WaitIdle /\ MaskIdle /\ CompareIdle /\ SpinIdle
        /\ ScoreIdle /\ SahiIdle /\ ParIdle /\ IsoIdle

ScoreOthersIdle ==
    CoreIdle /\ RaceIdle /\ WaitIdle /\ MaskIdle /\ CompareIdle /\ SpinIdle
        /\ CannyIdle /\ SahiIdle /\ ParIdle /\ IsoIdle

SahiOthersIdle ==
    CoreIdle /\ RaceIdle /\ WaitIdle /\ MaskIdle /\ CompareIdle /\ SpinIdle
        /\ CannyIdle /\ ScoreIdle /\ ParIdle /\ IsoIdle

ParOthersIdle ==
    CoreIdle /\ RaceIdle /\ WaitIdle /\ MaskIdle /\ CompareIdle /\ SpinIdle
        /\ CannyIdle /\ ScoreIdle /\ SahiIdle /\ IsoIdle

IsoOthersIdle ==
    CoreIdle /\ RaceIdle /\ WaitIdle /\ MaskIdle /\ CompareIdle /\ SpinIdle
        /\ CannyIdle /\ ScoreIdle /\ SahiIdle /\ ParIdle

ExtIdle == RaceIdle /\ WaitIdle /\ MaskIdle /\ CompareIdle /\ SpinIdle /\ LateIdle

InitGetBall ==
    /\ DedupIdle
    /\ ExtIdle
    /\ NmsIdle
    /\ NeuralIdle
    /\ pc = "call"
    /\ \E c \in ConfigSpace :
          cfg = [m \in Modes \ {"kUnknown"} |-> c]
    /\ search_mode \in Modes
    /\ img_empty \in BOOLEAN
    /\ expectedBallArea \in ExpectedAreas
    /\ colorExists = FALSE
    /\ return_balls \in {<<>>, <<StaleBall>>}
    /\ result = "none"
    /\ sub = [ox |-> 0, oy |-> 0, w |-> 0, h |-> 0]
    /\ currentParam2 = 0
    /\ currentlyLooseningSearch = FALSE
    /\ circles = <<>>
    /\ finalNumberOfFoundCircles = 0
    /\ done = FALSE
    /\ iterations = 0
    /\ lastStep = "start"

\* BallDetectorFacade::PreprocessForMode: fails for an invalid mode only
PreprocessForMode(mode) == mode # "kUnknown"

\* GetBall on an empty image
GetBallEmptyImage ==
    /\ pc = "call"
    /\ img_empty
    /\ pc' = "returned"
    /\ result' = FALSE
    /\ UNCHANGED <<cfg, search_mode, img_empty, expectedBallArea, colorExists,
                   return_balls, sub, currentParam2, currentlyLooseningSearch,
                   circles, finalNumberOfFoundCircles, done, iterations, lastStep>>

\* GetBallHough when the mode-specific preprocessing fails
GetBallPreprocessFails ==
    /\ pc = "call"
    /\ ~img_empty
    /\ ~PreprocessForMode(search_mode)
    /\ pc' = "returned"
    /\ result' = FALSE
    /\ UNCHANGED <<cfg, search_mode, img_empty, expectedBallArea, colorExists,
                   return_balls, sub, currentParam2, currentlyLooseningSearch,
                   circles, finalNumberOfFoundCircles, done, iterations, lastStep>>

\* GetBallHough up to the start of the adaptive loop
GetBallStart ==
    /\ pc = "call"
    /\ ~img_empty
    /\ PreprocessForMode(search_mode)
    /\ pc' = "loop"
    /\ sub' = SearchRegion(ImageWidth, 1, expectedBallArea)
    /\ circles' = <<>>
    /\ finalNumberOfFoundCircles' = 0
    /\ done' = FALSE
    /\ currentParam2' = GetParamsForMode(search_mode, cfg).starting_param2
    /\ currentlyLooseningSearch' = FALSE
    /\ UNCHANGED <<cfg, search_mode, img_empty, expectedBallArea, colorExists,
                   return_balls, result, iterations, lastStep>>

\* one iteration of the adaptive loop
HoughIteration ==
    /\ pc = "loop"
    /\ ~done
    /\ iterations < MaxIter
    /\ \E hough_circles \in HoughOutputs(sub) :
          LET st == [circles |-> circles,
                     currentParam2 |-> currentParam2,
                     currentlyLooseningSearch |-> currentlyLooseningSearch,
                     finalNumberOfFoundCircles |-> finalNumberOfFoundCircles,
                     done |-> done,
                     step |-> lastStep]
              nx == LoopIteration(st, GetParamsForMode(search_mode, cfg), hough_circles)
          IN  /\ circles' = nx.circles
              /\ currentParam2' = nx.currentParam2
              /\ currentlyLooseningSearch' = nx.currentlyLooseningSearch
              /\ finalNumberOfFoundCircles' = nx.finalNumberOfFoundCircles
              /\ done' = nx.done
              /\ lastStep' = nx.step
    /\ iterations' = iterations + 1
    /\ UNCHANGED <<pc, cfg, search_mode, img_empty, expectedBallArea, colorExists,
                   return_balls, result, sub>>

\* GetBallHough after the loop when no circle was found
GetBallNoCircles ==
    /\ pc = "loop"
    /\ done
    /\ finalNumberOfFoundCircles = 0
    /\ pc' = "returned"
    /\ result' = FALSE
    /\ UNCHANGED <<cfg, search_mode, img_empty, expectedBallArea, colorExists,
                   return_balls, sub, currentParam2, currentlyLooseningSearch,
                   circles, finalNumberOfFoundCircles, done, iterations, lastStep>>

\* GetBallHough after the loop: translate, filter, score and return
GetBallFinish ==
    /\ pc = "loop"
    /\ done
    /\ finalNumberOfFoundCircles # 0
    /\ \E expectedBallColorExists \in BOOLEAN :
       \E colour \in [1..Len(circles) -> ColorScores] :
       \E out \in FilterAndScoreCandidates(TranslateToFull(circles, sub), return_balls,
                                           search_mode, expectedBallColorExists, colour) :
          /\ circles' = TranslateToFull(circles, sub)
          /\ colorExists' = expectedBallColorExists
          /\ return_balls' = out.balls
          /\ result' = out.ok
    /\ pc' = "returned"
    /\ UNCHANGED <<cfg, search_mode, img_empty, expectedBallArea,
                   sub, currentParam2, currentlyLooseningSearch,
                   finalNumberOfFoundCircles, done, iterations, lastStep>>

vars == <<hbVars, ddVars, nmsVars, nnVars, extVars>>

NextGetBall ==
    \/ GetBallEmptyImage /\ UNCHANGED <<ddVars, nmsVars, nnVars, extVars>>
    \/ GetBallPreprocessFails /\ UNCHANGED <<ddVars, nmsVars, nnVars, extVars>>
    \/ GetBallStart /\ UNCHANGED <<ddVars, nmsVars, nnVars, extVars>>
    \/ HoughIteration /\ UNCHANGED <<ddVars, nmsVars, nnVars, extVars>>
    \/ GetBallNoCircles /\ UNCHANGED <<ddVars, nmsVars, nnVars, extVars>>
    \/ GetBallFinish /\ UNCHANGED <<ddVars, nmsVars, nnVars, extVars>>

SpecGetBall == InitGetBall /\ [][NextGetBall]_vars


\* ------------------------------------------------ claims about GetBall
\* the bundle the running call works with
Params == GetParamsForMode(search_mode, cfg)

\* ceil((max_param2 - min_param2) / increment) + 2
IterationBudget ==
    CeilDiv(Params.max_param2 - Params.min_param2, Params.param2_increment) + 2

\* C1: the adaptive Hough loop run by GetBall terminates after at most
\* ceil((max_param2 - min_param2)/increment) + 2 iterations, for every
\* configuration and every sequence of circle counts.
C1_LoopWithinBudget == iterations <= IterationBudget

\* C2: every iteration of the adaptive loop either terminates the loop or
\* changes param2 by exactly one increment; no iteration continues with
\* param2 unchanged.
C2_IterationMovesOrStops ==
    [][(pc = "loop" /\ iterations' = iterations + 1) =>
          \/ done'
          \/ currentParam2' = currentParam2 + Params.param2_increment
          \/ currentParam2' = currentParam2 - Params.param2_increment]_vars

\* C3: GetBall returns false if and only if out_balls is empty when it
\* returns, whatever out_balls held on entry.
C3_FalseIffEmpty ==
    pc = "returned" => ((result = FALSE) <=> (return_balls = <<>>))

\* C4: the number of balls GetBall places in out_balls is at most the
\* mode's max_hough_return_circles, whichever branch accepted the circles.
C4_AtMostMaxCircles ==
    (pc = "returned" /\ result = TRUE) =>
        Len(return_balls) <= Params.max_hough_return_circles

\* C5: when GetBall searches a sub-image of size sub_w x sub_h extracted at
\* offset (ox, oy), every returned circle has its centre, in full-image
\* coordinates, inside that region.
C5_CentresInsideRegion ==
    (pc = "returned" /\ result = TRUE /\ ~RectIsZero(expectedBallArea)) =>
        \A k \in 1..Len(return_balls) :
            /\ return_balls[k].circle.x >= 2 * sub.ox
            /\ return_balls[k].circle.x < 2 * (sub.ox + sub.w)
            /\ return_balls[k].circle.y >= 2 * sub.oy
            /\ return_balls[k].circle.y < 2 * (sub.oy + sub.h)

\* a call on a sub-image that does not start at the image origin returned
\* balls
C5_Witness ==
    /\ pc = "returned"
    /\ result = TRUE
    /\ ~RectIsZero(expectedBallArea)
    /\ sub.ox > 0
    /\ Len(return_balls) >= 2


\* ------------------------------------- RemoveSmallestConcentricCircles
\* longest list handed to RemoveSmallestConcentricCircles
MaxDedupLen == 4

\* the circles of those lists: two integer centres, radii around 10.5
DedupCircleSet == [x : {1, 2}, y : {0, 1}, r : {20, 21, 22}]

InitDedup ==
    /\ GetBallIdle
    /\ ExtIdle
    /\ NmsIdle
    /\ NeuralIdle
    /\ dedupInput \in SeqsUpTo(DedupCircleSet, MaxDedupLen)
    /\ dedupCircles = dedupInput
    /\ dedupDone = FALSE

\* a call of RemoveSmallestConcentricCircles on the vector
CallRemoveSmallestConcentricCircles ==
    /\ ~dedupDone
    /\ dedupCircles' = RemoveSmallestConcentricCircles(dedupCircles)
    /\ dedupDone' = TRUE
    /\ UNCHANGED <<dedupInput, hbVars, nmsVars, nnVars, extVars>>

NextDedup == CallRemoveSmallestConcentricCircles

SpecDedup == InitDedup /\ [][NextDedup]_vars

\* C6: after RemoveSmallestConcentricCircles no two circles in the list
\* share the same integer centre coordinates.
C6_NoSharedCentre ==
    dedupDone =>
        \A a, b \in 1..Len(dedupCircles) :
            a # b => CircleXY(dedupCircles[a]) # CircleXY(dedupCircles[b])

\* a list with three circles on one integer centre and a fourth elsewhere
\* has been reduced to two circles
C6_Witness ==
    /\ dedupDone
    /\ Len(dedupInput) = 4
    /\ \E a, b, c \in 1..4 :
          /\ a < b /\ b < c
          /\ CircleXY(dedupInput[a]) = CircleXY(dedupInput[b])
          /\ CircleXY(dedupInput[b]) = CircleXY(dedupInput[c])
          /\ IntRadius(dedupInput[a]) < IntRadius(dedupInput[c])
    /\ Len(dedupCircles) = 2

\* C7: every integer centre occurring in the input still occurs in the
\* output, and the circle kept for that centre has the maximum radius
\* among all input circles with that centre.
C7_KeepsMaxRadius ==
    dedupDone =>
        \A k \in 1..Len(dedupInput) :
            \E m \in 1..Len(dedupCircles) :
                /\ CircleXY(dedupCircles[m]) = CircleXY(dedupInput[k])
                /\ \A n \in 1..Len(dedupInput) :
                      CircleXY(dedupInput[n]) = CircleXY(dedupInput[k])
                          => dedupInput[n].r <= dedupCircles[m].r


\* -------------------------------------------------------- SingleClassNMS
\* most boxes handed to SingleClassNMS
MaxBoxes == 3

\* the boxes (cv::Rect) and confidences of those calls
BoxSet == [x : {0, 1}, y : {0}, width : {0, 2, 4}, height : {2}]

ConfidenceSet == {1, 2, 3}

NmsThresholds == {<<1, 3>>, <<1, 2>>}

\* intersection_area of two boxes
IntersectionArea(box_i, box_j) ==
    LET x1 == Max(box_i.x, box_j.x)
        y1 == Max(box_i.y, box_j.y)
        x2 == Min(box_i.x + box_i.width, box_j.x + box_j.width)
        y2 == Min(box_i.y + box_i.height, box_j.y + box_j.height)
    IN Max(0, x2 - x1) * Max(0, y2 - y1)

\* union_area of two boxes
UnionArea(box_i, box_j) ==
    box_i.width * box_i.height + box_j.width * box_j.height
        - IntersectionArea(box_i, box_j)

\* iou > nms_threshold, the threshold being thr[1] / thr[2]; a union that
\* is not positive gives iou = 0
IoUExceeds(box_i, box_j, thr) ==
    IF UnionArea(box_i, box_j) > 0
    THEN IntersectionArea(box_i, box_j) * thr[2] > thr[1] * UnionArea(box_i, box_j)
    ELSE 0 > thr[1]

\* the (confidence, index) pairs that pass the confidence prefilter
ConfidenceIndexPairs(confs, cthr) ==
    SelectSeq([k \in 1..Len(confs) |-> [first |-> confs[k], second |-> k]],
              LAMBDA e : e.first >= cthr)

\* a pair sorted the other way round
AscendingConfidence(a, b) == a.first < b.first

\* the comparator handed to std::sort
DescendingConfidence(a, b) == a.first > b.first

RECURSIVE SuppressLater(_, _, _, _, _, _)
\* the inner loop: marks the boxes after position i that box i suppresses
SuppressLater(pairs, bxs, thr, suppressed, i, j) ==
    IF j > Len(pairs) THEN suppressed
    ELSE IF suppressed[j] THEN SuppressLater(pairs, bxs, thr, suppressed, i, j + 1)
    ELSE SuppressLater(pairs, bxs, thr,
             [suppressed EXCEPT ![j] =
                 IoUExceeds(bxs[pairs[i].second], bxs[pairs[j].second], thr)],
             i, j + 1)

RECURSIVE GreedyPick(_, _, _, _, _, _)
\* the greedy loop that keeps suppressed boxes as well
GreedyPickKeepsSuppressed(pairs, bxs, thr, suppressed, picked, i) ==
    IF i > Len(pairs) THEN picked
    ELSE GreedyPick(pairs, bxs, thr,
                    SuppressLater(pairs, bxs, thr, suppressed, i, i + 1),
                    Append(picked, pairs[i].second), i + 1)

\* the outer loop over the sorted pairs
GreedyPick(pairs, bxs, thr, suppressed, picked, i) ==
    IF i > Len(pairs) THEN picked
    ELSE IF suppressed[i] THEN GreedyPick(pairs, bxs, thr, suppressed, picked, i + 1)
    ELSE GreedyPick(pairs, bxs, thr,
                    SuppressLater(pairs, bxs, thr, suppressed, i, i + 1),
                    Append(picked, pairs[i].second), i + 1)

\* BallImageProc::SingleClassNMS: the index lists it can return
SingleClassNMS(bxs, confs, cthr, thr) ==
    LET pairs == ConfidenceIndexPairs(confs, cthr)
    IN  IF pairs = <<>> THEN {<<>>}
        ELSE {GreedyPick(sorted, bxs, thr, [k \in 1..Len(sorted) |-> FALSE], <<>>, 1) :
                 sorted \in SortOutcomes(pairs,
                     [a \in 1..Len(pairs) |-> [b \in 1..Len(pairs) |->
                         DescendingConfidence(pairs[a], pairs[b])]])}

InitNms ==
    /\ GetBallIdle
    /\ ExtIdle
    /\ DedupIdle
    /\ NeuralIdle
    /\ \E n \in 0..MaxBoxes :
          /\ boxes \in [1..n -> BoxSet]
          /\ confidences \in [1..n -> ConfidenceSet]
    /\ conf_threshold = 2
    /\ nms_threshold \in NmsThresholds
    /\ indices = <<>>
    /\ nmsDone = FALSE

\* a call of SingleClassNMS
CallSingleClassNMS ==
    /\ ~nmsDone
    /\ indices' \in SingleClassNMS(boxes, confidences, conf_threshold, nms_threshold)
    /\ nmsDone' = TRUE
    /\ UNCHANGED <<boxes, confidences, conf_threshold, nms_threshold, hbVars, ddVars, nnVars,
                   extVars>>

NextNms == CallSingleClassNMS

SpecNms == InitNms /\ [][NextNms]_vars

\* the positions of the returned index list
Returned == {indices[k] : k \in 1..Len(indices)}

\* C8: every pair of distinct boxes whose indices are returned by
\* SingleClassNMS has IoU less than or equal to nms_threshold.
C8_ReturnedPairsDisjoint ==
    nmsDone =>
        \A a, b \in 1..Len(indices) :
            a # b => ~IoUExceeds(boxes[indices[a]], boxes[indices[b]], nms_threshold)

\* three confident boxes went in, one overlapped another too much and was
\* suppressed, two came out
C8_Witness ==
    /\ nmsDone
    /\ Len(boxes) = 3
    /\ \A k \in 1..3 : confidences[k] >= conf_threshold
    /\ Len(indices) = 2
    /\ \E k \in 1..3 : k \notin Returned /\ \E m \in Returned :
          IoUExceeds(boxes[m], boxes[k], nms_threshold)

\* C9: every input box with confidence >= conf_threshold that
\* SingleClassNMS does not return is overlapped with IoU > nms_threshold by
\* some returned box of higher confidence.
C9_SuppressedByHigher ==
    nmsDone =>
        \A k \in 1..Len(boxes) :
            (confidences[k] >= conf_threshold /\ k \notin Returned) =>
                \E m \in Returned :
                    /\ confidences[m] > confidences[k]
                    /\ IoUExceeds(boxes[m], boxes[k], nms_threshold)

\* C9 as amended: every input box with confidence >= conf_threshold that
\* SingleClassNMS does not return is overlapped with IoU > nms_threshold by
\* some returned box whose confidence is higher than or equal to its own.
C9_SuppressedByNotLower ==
    nmsDone =>
        \A k \in 1..Len(boxes) :
            (confidences[k] >= conf_threshold /\ k \notin Returned) =>
                \E m \in Returned :
                    /\ confidences[m] >= confidences[k]
                    /\ IoUExceeds(boxes[m], boxes[k], nms_threshold)

\* a confident box was suppressed by a returned box of strictly higher
\* confidence while a less confident box was dropped by the prefilter
C9_Witness ==
    /\ nmsDone
    /\ Len(boxes) = 3
    /\ \E k, m, l \in 1..3 :
          /\ confidences[k] >= conf_threshold
          /\ k \notin Returned
          /\ m \in Returned
          /\ confidences[m] > confidences[k]
          /\ IoUExceeds(boxes[m], boxes[k], nms_threshold)
          /\ confidences[l] < conf_threshold


\* ------------------------------------------------------ neural dispatch
\* number of neural entry-point calls explored
MaxCalls == 3

\* what the environment decides for one run of a backend: whether the
\* model loads, and what inference does
BackendEnvs == [loadOk : BOOLEAN, inference : {"throws", "nothing", "found"}]

\* BallImageProc::DetectBallsONNXRuntime, run by one thread: st holds the
\* handle, the flag and the construction count
DetectBallsONNXRuntime(st, env) ==
    LET constructed == [st EXCEPT !.detector = "constructed",
                                  !.handles = st.handles + 1]
        afterInit ==
            IF st.initialized THEN st
            ELSE IF ~env.loadOk THEN [constructed EXCEPT !.detector = "null"]
                 ELSE [constructed EXCEPT !.detector = "ready", !.initialized = TRUE]
    IN  IF ~st.initialized /\ ~env.loadOk
        THEN [ok |-> FALSE, st |-> afterInit]
        ELSE [ok |-> env.inference = "found", st |-> afterInit]

\* BallImageProc::DetectBallsOpenCVDNN
DetectBallsOpenCVDNN(st, env) ==
    IF ~st.yolo_loaded /\ ~env.loadOk
    THEN [ok |-> FALSE, st |-> st]
    ELSE [ok |-> env.inference = "found", st |-> [st EXCEPT !.yolo_loaded = TRUE]]

\* the dispatcher falling back whatever kONNXRuntimeAutoFallback says
DetectBallsONNXAlwaysFallback(backend, autoFallback, st, envPrimary, envFallback) ==
    LET primary == DetectBallsONNXRuntime(st, envPrimary)
        fallback == DetectBallsOpenCVDNN(primary.st, envFallback)
        direct == DetectBallsOpenCVDNN(st, envFallback)
    IN  IF backend = "onnxruntime"
        THEN IF primary.ok
             THEN [ok |-> TRUE, st |-> primary.st,
                   attempted |-> <<"onnxruntime">>, backendOk |-> <<TRUE>>]
             ELSE [ok |-> fallback.ok, st |-> fallback.st,
                   attempted |-> <<"onnxruntime", "opencv_dnn">>,
                   backendOk |-> <<FALSE, fallback.ok>>]
        ELSE [ok |-> direct.ok, st |-> direct.st,
              attempted |-> <<"opencv_dnn">>, backendOk |-> <<direct.ok>>]

\* BallImageProc::DetectBallsONNX: the dual-backend dispatcher
DetectBallsONNX(backend, autoFallback, st, envPrimary, envFallback) ==
    LET primary == DetectBallsONNXRuntime(st, envPrimary)
        fallback == DetectBallsOpenCVDNN(primary.st, envFallback)
        direct == DetectBallsOpenCVDNN(st, envFallback)
    IN  IF backend = "onnxruntime"
        THEN IF primary.ok
             THEN [ok |-> TRUE, st |-> primary.st,
                   attempted |-> <<"onnxruntime">>, backendOk |-> <<TRUE>>]
             ELSE IF autoFallback
             THEN [ok |-> fallback.ok, st |-> fallback.st,
                   attempted |-> <<"onnxruntime", "opencv_dnn">>,
                   backendOk |-> <<FALSE, fallback.ok>>]
             ELSE [ok |-> FALSE, st |-> primary.st,
                   attempted |-> <<"onnxruntime">>, backendOk |-> <<FALSE>>]
        ELSE [ok |-> direct.ok, st |-> direct.st,
              attempted |-> <<"opencv_dnn">>, backendOk |-> <<direct.ok>>]

\* BallImageProc::PreloadONNXRuntimeModel, run by one thread
PreloadONNXRuntimeModel(st, env) ==
    IF st.initialized THEN st
    ELSE IF ~env.loadOk
         THEN [st EXCEPT !.detector = "constructed", !.handles = st.handles + 1]
         ELSE [st EXCEPT !.detector = "ready", !.handles = st.handles + 1,
                         !.initialized = TRUE]

\* BallImageProc::CleanupONNXRuntime
CleanupONNXRuntime(st) ==
    IF st.initialized THEN [st EXCEPT !.detector = "null", !.initialized = FALSE]
    ELSE st

\* the neural statics as one record
NeuralState ==
    [initialized |-> onnx_detector_initialized_,
     detector |-> onnx_detector_,
     handles |-> handlesConstructed,
     yolo_loaded |-> yolo_model_loaded_]

\* writes a record of that shape back to the statics
SetNeuralState(st) ==
    /\ onnx_detector_initialized_' = st.initialized
    /\ onnx_detector_' = st.detector
    /\ handlesConstructed' = st.handles
    /\ yolo_model_loaded_' = st.yolo_loaded

InitNeural ==
    /\ GetBallIdle
    /\ ExtIdle
    /\ DedupIdle
    /\ NmsIdle
    /\ kONNXBackend \in {"onnxruntime", "opencv_dnn"}
    /\ kONNXRuntimeAutoFallback \in BOOLEAN
    /\ onnx_detector_initialized_ = FALSE
    /\ onnx_detector_ = "null"
    /\ yolo_model_loaded_ = FALSE
    /\ handlesConstructed = 0
    /\ calls = 0
    /\ attempted = <<>>
    /\ backendOk = <<>>
    /\ dispatchResult = "none"

\* a call of DetectBallsONNX
CallDetectBallsONNX ==
    /\ calls < MaxCalls
    /\ \E envPrimary, envFallback \in BackendEnvs :
          LET r == DetectBallsONNX(kONNXBackend, kONNXRuntimeAutoFallback,
                                   NeuralState, envPrimary, envFallback)
          IN  /\ SetNeuralState(r.st)
              /\ attempted' = r.attempted
              /\ backendOk' = r.backendOk
              /\ dispatchResult' = r.ok
    /\ calls' = calls + 1
    /\ UNCHANGED <<kONNXBackend, kONNXRuntimeAutoFallback, hbVars, ddVars, nmsVars,
                   extVars>>

\* a call of PreloadONNXRuntimeModel
CallPreloadONNXRuntimeModel ==
    /\ calls < MaxCalls
    /\ \E env \in BackendEnvs : SetNeuralState(PreloadONNXRuntimeModel(NeuralState, env))
    /\ calls' = calls + 1
    /\ UNCHANGED <<kONNXBackend, kONNXRuntimeAutoFallback, attempted, backendOk,
                   dispatchResult, hbVars, ddVars, nmsVars, extVars>>

\* a call of CleanupONNXRuntime
CallCleanupONNXRuntime ==
    /\ calls < MaxCalls
    /\ SetNeuralState(CleanupONNXRuntime(NeuralState))
    /\ calls' = calls + 1
    /\ UNCHANGED <<kONNXBackend, kONNXRuntimeAutoFallback, attempted, backendOk,
                   dispatchResult, hbVars, ddVars, nmsVars, extVars>>

NextNeural ==
    \/ CallDetectBallsONNX
    \/ CallPreloadONNXRuntimeModel
    \/ CallCleanupONNXRuntime

SpecNeural == InitNeural /\ [][NextNeural]_vars

\* C10: with the primary backend selected, dispatch attempts the fallback
\* backend if and only if the primary attempt failed and auto-fallback is
\* enabled; it returns false exactly when every backend it attempted failed.
C10_FallbackIffPrimaryFailed ==
    attempted # <<>> =>
        /\ kONNXBackend = "onnxruntime" =>
              /\ attempted[1] = "onnxruntime"
              /\ (Len(attempted) = 2) <=> (~backendOk[1] /\ kONNXRuntimeAutoFallback)
              /\ Len(attempted) = 2 => attempted[2] = "opencv_dnn"
        /\ (dispatchResult = FALSE) <=> (\A k \in 1..Len(backendOk) : ~backendOk[k])

\* the primary backend failed with auto-fallback disabled and the call
\* returned failure without trying the fallback backend
C10_Witness ==
    /\ kONNXBackend = "onnxruntime"
    /\ ~kONNXRuntimeAutoFallback
    /\ attempted = <<"onnxruntime">>
    /\ backendOk = <<FALSE>>
    /\ dispatchResult = FALSE

\* C11: over any sequence of preload, detection and cleanup calls the
\* neural-model handle is constructed at most once in the process; no
\* later call constructs a second handle.
C11_HandleConstructedOnce == handlesConstructed <= 1

\* ------------------------------------------- threaded initialisation
\* entry-point calls each thread makes
MaxThreadCalls == 2

\* where a thread goes once it is past the initialisation block
AfterInitBlock(t) ==
    IF threadOp[t] = "DetectBallsONNXRuntime" THEN "detect" ELSE "idle"

\* the positions inside the construction/initialisation section
ConstructionSection == {"construct", "initialize", "store"}

\* a thread enters DetectBallsONNXRuntime or PreloadONNXRuntimeModel
ThreadBegin(t) ==
    /\ threadPc[t] = "idle"
    /\ threadCalls[t] < MaxThreadCalls
    /\ \E op \in {"DetectBallsONNXRuntime", "PreloadONNXRuntimeModel"} :
          threadOp' = [threadOp EXCEPT ![t] = op]
    /\ threadPc' = [threadPc EXCEPT ![t] = "check"]
    /\ threadCalls' = [threadCalls EXCEPT ![t] = @ + 1]
    /\ fastPathTaken' = fastPathTaken \ {t}
    /\ UNCHANGED <<onnx_detector_mutex_, constructedBy, initSucceeded, nnVars>>

\* the first read of the flag, outside the mutex
ThreadCheckFlag(t) ==
    /\ threadPc[t] = "check"
    /\ IF onnx_detector_initialized_
       THEN /\ threadPc' = [threadPc EXCEPT ![t] = AfterInitBlock(t)]
            /\ fastPathTaken' = fastPathTaken \cup {t}
       ELSE /\ threadPc' = [threadPc EXCEPT ![t] = "lock"]
            /\ UNCHANGED fastPathTaken
    /\ UNCHANGED <<threadOp, threadCalls, onnx_detector_mutex_, constructedBy,
                   initSucceeded, nnVars>>

\* std::lock_guard<std::mutex> lock(onnx_detector_mutex_)
ThreadLock(t) ==
    /\ threadPc[t] = "lock"
    /\ onnx_detector_mutex_ = 0
    /\ onnx_detector_mutex_' = t
    /\ threadPc' = [threadPc EXCEPT ![t] = "recheck"]
    /\ UNCHANGED <<threadOp, threadCalls, constructedBy, fastPathTaken,
                   initSucceeded, nnVars>>

\* a second read that is ignored: the thread constructs whatever it reads
ThreadRecheckIgnored(t) ==
    /\ threadPc[t] = "recheck"
    /\ threadPc' = [threadPc EXCEPT ![t] = "construct"]
    /\ UNCHANGED <<threadOp, threadCalls, onnx_detector_mutex_, constructedBy,
                   fastPathTaken, initSucceeded, nnVars>>

\* the second read of the flag, inside the mutex
ThreadRecheck(t) ==
    /\ threadPc[t] = "recheck"
    /\ IF onnx_detector_initialized_
       THEN /\ threadPc' = [threadPc EXCEPT ![t] = AfterInitBlock(t)]
            /\ onnx_detector_mutex_' = 0
       ELSE /\ threadPc' = [threadPc EXCEPT ![t] = "construct"]
            /\ UNCHANGED onnx_detector_mutex_
    /\ UNCHANGED <<threadOp, threadCalls, constructedBy, fastPathTaken,
                   initSucceeded, nnVars>>

\* onnx_detector_ = std::make_unique<ONNXRuntimeDetector>(config)
ThreadConstruct(t) ==
    /\ threadPc[t] = "construct"
    /\ onnx_detector_' = "constructed"
    /\ handlesConstructed' = handlesConstructed + 1
    /\ constructedBy' = constructedBy \cup {t}
    /\ threadPc' = [threadPc EXCEPT ![t] = "initialize"]
    /\ UNCHANGED <<threadOp, threadCalls, onnx_detector_mutex_, fastPathTaken,
                   initSucceeded, kONNXBackend, kONNXRuntimeAutoFallback,
                   onnx_detector_initialized_, yolo_model_loaded_, calls,
                   attempted, backendOk, dispatchResult>>

\* onnx_detector_->Initialize(): on failure the call returns false, which
\* releases the mutex; DetectBallsONNXRuntime resets the handle first
ThreadInitialize(t) ==
    /\ threadPc[t] = "initialize"
    /\ \E loadOk \in BOOLEAN :
          IF loadOk
          THEN /\ onnx_detector_' = "ready"
               /\ threadPc' = [threadPc EXCEPT ![t] = "store"]
               /\ UNCHANGED onnx_detector_mutex_
          ELSE /\ onnx_detector_' = IF threadOp[t] = "DetectBallsONNXRuntime"
                                    THEN "null" ELSE onnx_detector_
               /\ threadPc' = [threadPc EXCEPT ![t] = "idle"]
               /\ onnx_detector_mutex_' = 0
    /\ UNCHANGED <<threadOp, threadCalls, constructedBy, fastPathTaken,
                   initSucceeded, kONNXBackend, kONNXRuntimeAutoFallback,
                   onnx_detector_initialized_, yolo_model_loaded_,
                   handlesConstructed, calls, attempted, backendOk, dispatchResult>>

\* onnx_detector_initialized_.store(true, std::memory_order_release)
ThreadStore(t) ==
    /\ threadPc[t] = "store"
    /\ onnx_detector_initialized_' = TRUE
    /\ initSucceeded' = initSucceeded + 1
    /\ threadPc' = [threadPc EXCEPT ![t] = "unlock"]
    /\ UNCHANGED <<threadOp, threadCalls, onnx_detector_mutex_, constructedBy,
                   fastPathTaken, kONNXBackend, kONNXRuntimeAutoFallback,
                   onnx_detector_, yolo_model_loaded_, handlesConstructed, calls,
                   attempted, backendOk, dispatchResult>>

\* the lock_guard goes out of scope
ThreadUnlock(t) ==
    /\ threadPc[t] = "unlock"
    /\ onnx_detector_mutex_' = 0
    /\ threadPc' = [threadPc EXCEPT ![t] = AfterInitBlock(t)]
    /\ UNCHANGED <<threadOp, threadCalls, constructedBy, fastPathTaken,
                   initSucceeded, nnVars>>

\* the rest of DetectBallsONNXRuntime: inference on the shared handle
ThreadDetect(t) ==
    /\ threadPc[t] = "detect"
    /\ threadPc' = [threadPc EXCEPT ![t] = "idle"]
    /\ UNCHANGED <<threadOp, threadCalls, onnx_detector_mutex_, constructedBy,
                   fastPathTaken, initSucceeded, nnVars>>

InitNeuralThreads ==
    /\ RaceOthersIdle
    /\ RaceIdle

NextNeuralThreads ==
    \/ \E t \in Threads : ThreadBegin(t) /\ UNCHANGED raceOthers
    \/ \E t \in Threads : ThreadCheckFlag(t) /\ UNCHANGED raceOthers
    \/ \E t \in Threads : ThreadLock(t) /\ UNCHANGED raceOthers
    \/ \E t \in Threads : ThreadRecheck(t) /\ UNCHANGED raceOthers
    \/ \E t \in Threads : ThreadConstruct(t) /\ UNCHANGED raceOthers
    \/ \E t \in Threads : ThreadInitialize(t) /\ UNCHANGED raceOthers
    \/ \E t \in Threads : ThreadStore(t) /\ UNCHANGED raceOthers
    \/ \E t \in Threads : ThreadUnlock(t) /\ UNCHANGED raceOthers
    \/ \E t \in Threads : ThreadDetect(t) /\ UNCHANGED raceOthers

SpecNeuralThreads == InitNeuralThreads /\ [][NextNeuralThreads]_vars

\* a thread whose current call read the flag as set has not taken the mutex
FastPathWithoutMutex ==
    \A t \in fastPathTaken :
        /\ onnx_detector_mutex_ # t
        /\ threadPc[t] \in {"detect", "idle"}

MaxWaitSecs == 4
\* longest time one camera poll takes, in clock ticks
MaxFrameTicks == 2
\* largest number of contours in one difference image
MaxContours == 2
\* number of values kept of the poll counter
FrameCountWidth == 2

\* the clock values the model distinguishes; a poll takes at least one
\* tick, so the timeout test fires before the clock reaches the cap
ClockCap == MaxWaitSecs + MaxFrameTicks + 1

\* areas cv::contourArea reports for one contour
ContourAreas == {3, 5, 10}

\* what c.getNextFrame() hands back: an empty frame, or a frame described
\* by the contour areas of its thresholded difference to the baseline
Frames ==
    {[empty |-> TRUE, contours |-> <<>>]} \cup
    [empty : {FALSE}, contours : SeqsUpTo(ContourAreas, MaxContours)]

RECURSIVE SumAreas(_)
\* totalAreaOfDeltas after the contour loop
SumAreas(cs) == IF cs = <<>> THEN 0 ELSE cs[1] + SumAreas(Tail(cs))

\* atLeastOneLargeAreaOfChange after the contour loop
AtLeastOneLargeAreaOfChange(cs, minArea) == \E k \in 1..Len(cs) : cs[k] > minArea

\* a test that stops waiting at any change at all
KeepWaitingUnlessAnyChange(cs, minArea) == cs = <<>>

\* the test that lets the loop keep waiting
KeepWaiting(cs, minArea) ==
    ~AtLeastOneLargeAreaOfChange(cs, minArea) \/ SumAreas(cs) < minArea

\* a wall-clock test that never fires
TimeNeverRunsOut(elapsed, limit) == FALSE

\* the wall-clock test at the top of the loop
TimeRanOut(elapsed, limit) == elapsed > limit

\* the loop body of WaitForBallMovement from the frame capture on; when
\* motion is found the loop ends and the function returns foundMotion
WaitIteration(st, frame) ==
    IF frame.empty
    THEN [st EXCEPT !.pc = "returned", !.result = FALSE, !.exit = "empty"]
    ELSE IF st.startupFrameCount < 1
    THEN [st EXCEPT !.startupFrameCount = st.startupFrameCount + 1]
    ELSE IF st.firstFrameEmpty
    THEN [st EXCEPT !.firstFrameEmpty = FALSE]
    ELSE IF KeepWaiting(frame.contours, st.min_area)
    THEN st
    ELSE [st EXCEPT !.foundMotion = TRUE, !.pc = "returned",
                    !.result = TRUE, !.exit = "motion"]

\* a compared frame that shows motion: some contour larger than the
\* squared ball radius and a total area of at least that much
FrameShowsMotion(frame, compared, minArea) ==
    /\ ~frame.empty
    /\ compared
    /\ \E k \in 1..Len(frame.contours) : frame.contours[k] > minArea
    /\ SumAreas(frame.contours) >= minArea

InitWait ==
    /\ WaitOthersIdle
    /\ waitPc = "loop"
    /\ waitTimeSecs \in 0..MaxWaitSecs
    /\ min_area \in {4, 9}
    /\ waitElapsed = 0
    /\ startupFrameCount = 0
    /\ frameLoopCount = 0
    /\ firstFrameEmpty = TRUE
    /\ foundMotion = FALSE
    /\ waitResult = FALSE
    /\ exitReason = "none"
    /\ motionFrames = 0

\* the timeout test fires: the loop breaks and foundMotion is returned
WaitTimeout ==
    /\ waitPc = "loop"
    /\ ~foundMotion
    /\ TimeRanOut(waitElapsed, waitTimeSecs)
    /\ waitPc' = "returned"
    /\ waitResult' = foundMotion
    /\ exitReason' = "timeout"
    /\ UNCHANGED <<waitTimeSecs, min_area, waitElapsed, startupFrameCount,
                   frameLoopCount, firstFrameEmpty, foundMotion, motionFrames,
                   waitOthers>>

\* one iteration that polls the camera
WaitPoll ==
    /\ waitPc = "loop"
    /\ ~foundMotion
    /\ ~TimeRanOut(waitElapsed, waitTimeSecs)
    /\ \E frame \in Frames, ticks \in 1..MaxFrameTicks :
          LET st == [pc |-> waitPc, startupFrameCount |-> startupFrameCount,
                     firstFrameEmpty |-> firstFrameEmpty, min_area |-> min_area,
                     foundMotion |-> foundMotion, result |-> waitResult,
                     exit |-> exitReason]
              nx == WaitIteration(st, frame)
              compared == startupFrameCount >= 1 /\ ~firstFrameEmpty
          IN  /\ waitElapsed' = Min(waitElapsed + ticks, ClockCap)
              /\ frameLoopCount' = (frameLoopCount + 1) % FrameCountWidth
              /\ waitPc' = nx.pc
              /\ startupFrameCount' = nx.startupFrameCount
              /\ firstFrameEmpty' = nx.firstFrameEmpty
              /\ foundMotion' = nx.foundMotion
              /\ waitResult' = nx.result
              /\ exitReason' = nx.exit
              /\ motionFrames' = IF FrameShowsMotion(frame, compared, min_area)
                                 THEN motionFrames + 1 ELSE motionFrames
    /\ UNCHANGED <<waitTimeSecs, min_area, waitOthers>>

NextWait ==
    \/ WaitTimeout
    \/ WaitPoll

SpecWait == InitWait /\ [][NextWait]_vars

\* the camera keeps answering and the thread keeps running
SpecWaitFair == SpecWait /\ WF_vars(NextWait)

\* C13: WaitForBallMovement returns true exactly when some polled frame
\* satisfied the motion-acceptance condition before the timeout, and it
\* returns at the first such frame; it returns false when the timeout
\* elapses first or when a capture returns an empty frame.
C13_TrueIffMotionFrame ==
    /\ motionFrames <= 1
    /\ motionFrames = 1 => (waitPc = "returned" /\ waitResult = TRUE)
    /\ waitPc = "returned" =>
          /\ (waitResult = TRUE) <=> (motionFrames = 1)
          /\ exitReason \in {"timeout", "empty"} => waitResult = FALSE
          /\ exitReason = "timeout" => waitElapsed > waitTimeSecs

\* the call discarded a frame, took a baseline and returned true at the
\* first compared frame that showed motion
C13_Witness ==
    /\ waitPc = "returned"
    /\ waitResult = TRUE
    /\ exitReason = "motion"
    /\ motionFrames = 1
    /\ startupFrameCount = 1
    /\ ~firstFrameEmpty
    /\ waitElapsed >= 3

\* C14: provided each camera poll returns, WaitForBallMovement always
\* eventually returns, and it leaves only through the motion exit, the
\* timeout exit or the empty-capture exit.
C14_EventuallyReturns ==
    /\ <>(waitPc = "returned")
    /\ [](waitPc = "returned" => exitReason \in {"motion", "timeout", "empty"})

\* the call polled until the clock passed the limit and left through the
\* timeout exit
C14_Witness ==
    /\ waitPc = "returned"
    /\ exitReason = "timeout"
    /\ waitResult = FALSE
    /\ waitTimeSecs = MaxWaitSecs
    /\ startupFrameCount = 1
    /\ ~firstFrameEmpty

\* ------------------------------------------------- GetColorMaskImage
\* the widening the function applies to every bound
kColorMaskWideningAmount == 35

\* CvUtils::kOpenCvHueMax: the end of the 8-bit hue scale
kOpenCvHueMax == 180

\* hue bounds, saturation/value bounds and pixel values the calls use
HueBounds == {0, 20, 60, 100, 145, 170}
LowerSvBounds == {20, 100}
UpperSvBounds == {150, 230}
PixelHues == {0, 10, 30, 50, 70, 100, 130, 150, 179}
PixelSvs == {0, 70, 120, 180, 255}
WideningAmounts == {0, 35}

\* cv::inRange on one pixel
InRange(px, lower, upper) ==
    /\ lower.h <= px.h /\ px.h <= upper.h
    /\ lower.s <= px.s /\ px.s <= upper.s
    /\ lower.v <= px.v /\ px.v <= upper.v

\* ColorFilter::GetColorMaskImage for one pixel of the image
GetColorMaskImage(px, lowerIn, upperIn, widening) ==
    LET lowerHsv == [h |-> lowerIn.h - kColorMaskWideningAmount,
                     s |-> lowerIn.s - kColorMaskWideningAmount,
                     v |-> lowerIn.v - kColorMaskWideningAmount]
        upperHsv == [h |-> upperIn.h + kColorMaskWideningAmount,
                     s |-> Min(upperIn.s + kColorMaskWideningAmount, 255),
                     v |-> Min(upperIn.v + kColorMaskWideningAmount, 255)]
        leftMostLowerHsv == [lowerHsv EXCEPT !.h = 0]
        leftMostUpperHsv ==
            IF lowerHsv.h < 0 THEN upperHsv
            ELSE [upperHsv EXCEPT !.h = upperHsv.h - 180]
        rightMostLowerHsv ==
            IF lowerHsv.h < 0 THEN [lowerHsv EXCEPT !.h = kOpenCvHueMax + lowerHsv.h]
            ELSE lowerHsv
        rightMostUpperHsv == [upperHsv EXCEPT !.h = kOpenCvHueMax]
    IN  IF lowerHsv.h >= 0 /\ upperHsv.h <= kOpenCvHueMax
        THEN IF InRange(px, lowerHsv, upperHsv) THEN 255 ELSE 0
        ELSE IF \/ InRange(px, leftMostLowerHsv, leftMostUpperHsv)
                \/ InRange(px, rightMostLowerHsv, rightMostUpperHsv)
             THEN 255 ELSE 0

InitMask ==
    /\ MaskOthersIdle
    /\ input_lowerHsv \in [h : HueBounds, s : LowerSvBounds, v : {100}]
    /\ input_upperHsv \in [h : HueBounds, s : UpperSvBounds, v : {150}]
    /\ input_lowerHsv.h <= input_upperHsv.h
    /\ wideningAmount \in WideningAmounts
    /\ hsvPixel \in [h : PixelHues, s : PixelSvs, v : {50, 120, 200}]
    /\ color_mask_image_ = 0
    /\ maskDone = FALSE

\* a call of GetColorMaskImage
CallGetColorMaskImage ==
    /\ ~maskDone
    /\ color_mask_image_' = GetColorMaskImage(hsvPixel, input_lowerHsv,
                                              input_upperHsv, wideningAmount)
    /\ maskDone' = TRUE
    /\ UNCHANGED <<input_lowerHsv, input_upperHsv, wideningAmount, hsvPixel, maskOthers>>

NextMask == CallGetColorMaskImage

SpecMask == InitMask /\ [][NextMask]_vars

\* the pixel lies within the bounds widened by w: its hue modulo 180
\* within [lower.h - w, upper.h + w], its S and V within the widened
\* bounds with the upper bound clamped to 255
WithinWidenedRange(px, lower, upper, w) ==
    /\ \E k \in {-1, 0, 1} :
          /\ lower.h - w <= (px.h % 180) + 180 * k
          /\ (px.h % 180) + 180 * k <= upper.h + w
    /\ lower.s - w <= px.s /\ px.s <= Min(upper.s + w, 255)
    /\ lower.v - w <= px.v /\ px.v <= Min(upper.v + w, 255)

\* C15: for any bounds with hi - lo <= 180 in hue and any widening amount
\* passed by the caller, the mask pixel is 255 if and only if the pixel
\* lies within the bounds widened by that amount, and 0 otherwise.
C15_MaskIffWithinWidenedRange ==
    maskDone =>
        /\ color_mask_image_ \in {0, 255}
        /\ (color_mask_image_ = 255) <=>
               WithinWidenedRange(hsvPixel, input_lowerHsv, input_upperHsv,
                                  wideningAmount)

\* ----------------------------------------------- CompareRotationImage
\* number of pixel positions of the compared images
ComparePixelCount == 3

\* the sentinel that marks a pixel to be ignored
kPixelIgnoreValue == 128

\* the values a dimple-image pixel holds: dark, sentinel, bright
DimplePixelValues == {0, 128, 255}

\* the narrowing of an int channel to uchar
ToUchar(v) == v % 256

RECURSIVE CompareLoop(_, _, _, _, _)
\* a loop that examines a pixel as soon as the first image is valid there
CompareLoopFirstImageOnly(a, b, k, score, totalPixelsExamined) ==
    IF k > Len(a) THEN <<score, totalPixelsExamined>>
    ELSE LET p1 == a[k]
             p2 == ToUchar(b[k][2])
         IN  IF p1 # kPixelIgnoreValue
             THEN CompareLoop(a, b, k + 1,
                              IF p1 = p2 THEN score + 1 ELSE score,
                              totalPixelsExamined + 1)
             ELSE CompareLoop(a, b, k + 1, score, totalPixelsExamined)

\* the pixel loop of CompareRotationImage, from position k on
CompareLoop(a, b, k, score, totalPixelsExamined) ==
    IF k > Len(a) THEN <<score, totalPixelsExamined>>
    ELSE LET p1 == a[k]
             p2 == ToUchar(b[k][2])
         IN  IF p1 # kPixelIgnoreValue /\ p2 # kPixelIgnoreValue
             THEN CompareLoop(a, b, k + 1,
                              IF p1 = p2 THEN score + 1 ELSE score,
                              totalPixelsExamined + 1)
             ELSE CompareLoop(a, b, k + 1, score, totalPixelsExamined)

\* SpinAnalyzer::CompareRotationImage
CompareRotationImage(a, b) == CompareLoop(a, b, 1, 0, 0)

InitCompare ==
    /\ CompareOthersIdle
    /\ img1 \in [1..ComparePixelCount -> DimplePixelValues]
    /\ img2 \in [1..ComparePixelCount -> {<<0, v>> : v \in DimplePixelValues}]
    /\ compareResult = <<0, 0>>
    /\ compareDone = FALSE

\* a call of CompareRotationImage
CallCompareRotationImage ==
    /\ ~compareDone
    /\ compareResult' = CompareRotationImage(img1, img2)
    /\ compareDone' = TRUE
    /\ UNCHANGED <<img1, img2, cmpOthers>>

NextCompare == CallCompareRotationImage

SpecCompare == InitCompare /\ [][NextCompare]_vars

\* the positions where neither image holds the sentinel
ValidPositions ==
    {k \in 1..Len(img1) : img1[k] # 128 /\ img2[k][2] # 128}

\* C16: a pixel position contributes to the examined count only when
\* neither image holds the sentinel 128 there, and to the matched count
\* only when it is examined and the two values are equal; hence
\* matched <= examined.
C16_CountsOnlyValidPairs ==
    compareDone =>
        /\ compareResult[2] = Cardinality(ValidPositions)
        /\ compareResult[1] = Cardinality({k \in ValidPositions : img1[k] = img2[k][2]})
        /\ compareResult[1] <= compareResult[2]

\* a comparison with a matching pair, a differing pair and a pair where
\* only the candidate image holds the sentinel
C16_Witness ==
    /\ compareDone
    /\ compareResult = <<1, 2>>
    /\ \E k \in 1..Len(img1) : img1[k] # 128 /\ img2[k][2] = 128

\* ------------------------------------------- Gabor threshold calibration
\* thresholds are kept in half units: the code steps them by 1.0 or 0.5
\* from a default that is a multiple of 0.5

\* float binary_threshold = 11. (GS_USING_IMAGE_EQ is defined), in half units
DefaultBinaryThreshold == 22

\* the default of the prior_binary_threshold parameter, -1, in half units
NoPriorThreshold == -2

\* the limits 2 and 30 of the ratchet, in half units
BinaryThresholdLow == 4
BinaryThresholdHigh == 60

kGaborMinWhitePercent == 38
kGaborMaxWhitePercent == 44

\* white percentages a filter application may report: far too dark, a
\* little too dark, balanced, a little too white, far too white
WhitePercents == {30, 35, 40, 46, 52}

\* the loop condition of the adaptation
WhiteOutOfRange(w) == w < kGaborMinWhitePercent \/ w >= kGaborMaxWhitePercent

\* one step of the ratchet
RatchetStep(bt, w, down) ==
    IF down
    THEN IF kGaborMinWhitePercent - w > 5 THEN bt - 2 ELSE bt - 1
    ELSE IF w - kGaborMaxWhitePercent > 5 THEN bt + 2 ELSE bt + 1

\* a second call that passes no prior threshold
SecondCallPriorOmitted == NoPriorThreshold

\* the prior threshold GetBallRotation passes to the second call
SecondCallPrior == calibrated_binary_threshold

\* the threshold a call starts from
StartingThreshold(prior) ==
    IF prior > 0 THEN prior ELSE DefaultBinaryThreshold

\* ApplyGaborFilterToBall up to the test that guards the adaptation block,
\* for ball b with the given prior; w is what the first filter application
\* reports.  The call returns at once unless the block is entered.
GaborEnter(b, prior, w) ==
    LET bt == StartingThreshold(prior)
    IN  /\ prior_binary_threshold' = prior
        /\ binary_threshold' = bt
        /\ white_percent' = w
        /\ ratheting_threshold_down' = (w < kGaborMinWhitePercent)
        /\ IF prior < 0 /\ WhiteOutOfRange(w)
           THEN /\ gaborPc' = IF b = 1 THEN "ratchet1" ELSE "ratchet2"
                /\ adaptedBall' = [adaptedBall EXCEPT ![b] = TRUE]
                /\ UNCHANGED <<dimpleThreshold, calibrated_binary_threshold>>
           ELSE /\ gaborPc' = IF b = 1 THEN "second" ELSE "done"
                /\ dimpleThreshold' = [dimpleThreshold EXCEPT ![b] = bt]
                /\ UNCHANGED <<adaptedBall, calibrated_binary_threshold>>

InitGabor ==
    /\ GaborOthersIdle
    /\ gaborPc = "first"
    /\ calibrated_binary_threshold = 0
    /\ prior_binary_threshold = 0
    /\ binary_threshold = 0
    /\ white_percent = 0
    /\ ratheting_threshold_down = FALSE
    /\ dimpleThreshold = <<0, 0>>
    /\ adaptedBall = <<FALSE, FALSE>>

\* GetBallRotation's call for the first ball
GaborFirstCall(w) ==
    /\ gaborPc = "first"
    /\ GaborEnter(1, NoPriorThreshold, w)

\* GetBallRotation's call for the second ball
GaborSecondCall(w) ==
    /\ gaborPc = "second"
    /\ GaborEnter(2, SecondCallPrior, w)

\* one iteration of the adaptation loop: step the threshold, apply the
\* filter with it, then test the limits; leaving the loop stores the
\* threshold in the caller's variable and returns the last image
GaborRatchet(w) ==
    /\ gaborPc \in {"ratchet1", "ratchet2"}
    /\ LET b == IF gaborPc = "ratchet1" THEN 1 ELSE 2
           bt == RatchetStep(binary_threshold, white_percent, ratheting_threshold_down)
           leave == \/ bt > BinaryThresholdHigh
                    \/ bt < BinaryThresholdLow
                    \/ ~WhiteOutOfRange(w)
       IN  /\ binary_threshold' = bt
           /\ white_percent' = w
           /\ IF leave
              THEN /\ calibrated_binary_threshold' = bt
                   /\ dimpleThreshold' = [dimpleThreshold EXCEPT ![b] = bt]
                   /\ gaborPc' = IF b = 1 THEN "second" ELSE "done"
              ELSE UNCHANGED <<calibrated_binary_threshold, dimpleThreshold, gaborPc>>
    /\ UNCHANGED <<prior_binary_threshold, ratheting_threshold_down, adaptedBall>>

NextGabor ==
    \/ \E w \in WhitePercents : GaborFirstCall(w) /\ UNCHANGED gaborOthers
    \/ \E w \in WhitePercents : GaborSecondCall(w) /\ UNCHANGED gaborOthers
    \/ \E w \in WhitePercents : GaborRatchet(w) /\ UNCHANGED gaborOthers

SpecGabor == InitGabor /\ [][NextGabor]_vars

\* C18: the threshold a returned dimple image was produced with, and the
\* calibrated threshold reported to the caller, lie within [2, 30].
C18_ThresholdWithinBounds ==
    /\ \A b \in 1..2 :
          dimpleThreshold[b] # 0 =>
              dimpleThreshold[b] \in BinaryThresholdLow..BinaryThresholdHigh
    /\ calibrated_binary_threshold # 0 =>
          calibrated_binary_threshold \in BinaryThresholdLow..BinaryThresholdHigh

\* C19: once both calls have returned, the second ball's image was made
\* with the threshold accepted for the first ball and the second call ran
\* no adaptation.
C19_SecondBallSharesThreshold ==
    gaborPc = "done" =>
        /\ dimpleThreshold[2] = dimpleThreshold[1]
        /\ ~adaptedBall[2]

\* both calls have returned, the first ball's threshold was adapted away
\* from the default, and the second ball's first filter application was
\* out of balance
C19_Witness ==
    /\ gaborPc = "done"
    /\ adaptedBall[1]
    /\ dimpleThreshold[1] # DefaultBinaryThreshold
    /\ dimpleThreshold[2] = dimpleThreshold[1]
    /\ WhiteOutOfRange(white_percent)

\* ----------------------------------------------- candidate angle grids
MaxAngleEnd == 2
MaxAngleIncrement == 2

\* the first angles sampled for an axis
AngleStarts == {-1, 0}

\* the axes sampled: start <= end and a positive increment
Axes ==
    {a \in [start : AngleStarts, end : -1..MaxAngleEnd, increment : 1..MaxAngleIncrement] :
        a.start <= a.end}

\* C++ integer division, which truncates toward zero (b > 0)
TruncDiv(a, b) == IF a >= 0 THEN a \div b ELSE -((-a) \div b)

\* a size computed from the ceiling of the exact quotient
AxisSizeExactCeil(axis) == CeilDiv(axis.end - axis.start, axis.increment) + 1

\* (int)std::ceil((end - start) / increment) + 1: the quotient is an int
\* division, so std::ceil receives a whole number and returns it
AxisSize(axis) == TruncDiv(axis.end - axis.start, axis.increment) + 1

RECURSIVE AxisLoop(_, _, _)
\* for (v = start; v <= end; v += increment): the values visited from v on
AxisLoop(v, end, increment) ==
    IF v <= end THEN <<v>> \o AxisLoop(v + increment, end, increment) ELSE <<>>

\* the angles one of the three nested loops visits
AxisAngles(axis) == AxisLoop(axis.start, axis.end, axis.increment)

\* SpinAnalyzer::ComputeCandidateAngleImages: the reserved sizes and the
\* rotation triples pushed, x outermost and z innermost
ComputeCandidateAngleImages(space) ==
    LET xs == AxisAngles(space.x)
        ys == AxisAngles(space.y)
        zs == AxisAngles(space.z)
        ny == Len(ys)
        nz == Len(zs)
    IN  [size |-> <<AxisSize(space.x), AxisSize(space.y), AxisSize(space.z)>>,
         candidates |->
            [n \in 1..(Len(xs) * ny * nz) |->
                <<xs[((n - 1) \div (ny * nz)) + 1],
                  ys[(((n - 1) \div nz) % ny) + 1],
                  zs[((n - 1) % nz) + 1]>>]]

InitAngles ==
    /\ AnglesOthersIdle
    /\ search_space \in [x : Axes, y : Axes, z : Axes]
    /\ output_candidate_elements_mat_size = <<0, 0, 0>>
    /\ output_candidates = <<>>
    /\ anglesDone = FALSE

\* a call of ComputeCandidateAngleImages
CallComputeCandidateAngleImages ==
    /\ ~anglesDone
    /\ LET out == ComputeCandidateAngleImages(search_space)
       IN  /\ output_candidate_elements_mat_size' = out.size
           /\ output_candidates' = out.candidates
    /\ anglesDone' = TRUE
    /\ UNCHANGED <<search_space, angleOthers>>

NextAngles == CallComputeCandidateAngleImages

SpecAngles == InitAngles /\ [][NextAngles]_vars

\* the three axes of the search space, in matrix order
SpaceAxes == <<search_space.x, search_space.y, search_space.z>>

\* the distinct angles pushed for axis k
EnumeratedOnAxis(k) == {output_candidates[n][k] : n \in 1..Len(output_candidates)}

\* C20 as stated: on each axis the number of angles enumerated and the
\* size reserved equal ceil((end - start) / inc) + 1, and the matrix has
\* one slot per enumerated triple.
C20_CountIsCeilPlusOne ==
    anglesDone =>
        /\ \A k \in 1..3 :
              /\ Cardinality(EnumeratedOnAxis(k)) = AxisSizeExactCeil(SpaceAxes[k])
              /\ output_candidate_elements_mat_size[k] = AxisSizeExactCeil(SpaceAxes[k])
        /\ Len(output_candidates) =
              output_candidate_elements_mat_size[1]
                * output_candidate_elements_mat_size[2]
                * output_candidate_elements_mat_size[3]

\* C20 amended: on each axis the number of angles enumerated and the size
\* reserved equal floor((end - start) / inc) + 1, and the matrix has one
\* slot per enumerated triple.
C20_CountIsFloorPlusOne ==
    anglesDone =>
        /\ \A k \in 1..3 :
              LET axis == SpaceAxes[k]
                  floorPlusOne == ((axis.end - axis.start) \div axis.increment) + 1
              IN  /\ Cardinality(EnumeratedOnAxis(k)) = floorPlusOne
                  /\ output_candidate_elements_mat_size[k] = floorPlusOne
        /\ Len(output_candidates) =
              output_candidate_elements_mat_size[1]
                * output_candidate_elements_mat_size[2]
                * output_candidate_elements_mat_size[3]

\* a grid whose x increment does not divide its x span
C20_Witness ==
    /\ anglesDone
    /\ (search_space.x.end - search_space.x.start) % search_space.x.increment # 0
    /\ Len(output_candidates) > 1

\* ------------------------------------------- coarse-to-fine rotation search
MaxCoarseIncrement == 2

\* what CompareRotationImage may report for one candidate,
\* <<pixels_matching, pixels_examined>>, in units of 5000 pixels
ComparisonResults == {<<m, e>> : m \in 0..2, e \in 0..2} \ {<<1, 0>>, <<2, 0>>, <<2, 1>>}

\* the results of a pass over n candidates: r1 for candidate k, r0 for the rest
PassResults(n, k, r0, r1) == [i \in 1..n |-> IF i = k THEN r1 ELSE r0]

\* the candidates singled out among n: the first, the middle and the last
DistinguishedPositions(n) == {1, (n + 1) \div 2, n}

\* maxPixelsExamined after the first loop of CompareCandidateAngleImages
MaxPixelsExamined(results) ==
    LET es == {results[i][2] : i \in 1..Len(results)} \cup {-1}
    IN  CHOOSE e \in es : \A f \in es : f <= e

RECURSIVE ScanBest(_, _, _, _)
\* the second loop of CompareCandidateAngleImages from candidate k on.
\* final_scaled_score = score * 10 - ((M - e) / 500)^2 / 1000 is kept in
\* tenths as the fraction num / den; a candidate with no examined pixel has
\* score 0/0, a NaN, and no comparison with it succeeds
ScanBest(results, k, maxExamined, best) ==
    IF k > Len(results) THEN best.index
    ELSE LET m == results[k][1]
             e == results[k][2]
             num == 100 * m - (maxExamined - e) * (maxExamined - e) * e
         IN  IF e # 0 /\ num * best.den > best.num * e
             THEN ScanBest(results, k + 1, maxExamined,
                           [num |-> num, den |-> e, index |-> k - 1])
             ELSE ScanBest(results, k + 1, maxExamined, best)

\* SpinAnalyzer::CompareCandidateAngleImages: the index of the best
\* candidate, -1 when no candidate beats the initial maxScaledScore = -1.0
CompareCandidateAngleImages(results) ==
    ScanBest(results, 1, MaxPixelsExamined(results), [num |-> -10, den |-> 1, index |-> -1])

\* the fine grid GetBallRotation builds around the coarse winner c
FinalSearchSpace(c, coarse) ==
    LET anglex_window_width == CeilDiv(coarse.x.increment, 2)
        angley_window_width == CeilDiv(coarse.y.increment, 2)
        anglez_window_width == CeilDiv(coarse.z.increment, 2)
    IN  [x |-> Axis(c[1] - anglex_window_width, c[1] + anglex_window_width, 1),
         y |-> Axis(c[2] - angley_window_width, c[2] + angley_window_width,
                    Round(coarse.y.increment)),
         z |-> Axis(c[3] - anglez_window_width, c[3] + anglez_window_width, 1)]

\* the perspective offsets sampled, in degrees, with their cosine and sine
OffsetDegrees == {0, 90}
Cos(a) == IF a = 0 THEN 1 ELSE 0
Sin(a) == IF a = 0 THEN 0 ELSE 1

\* the normalisation of the best rotation for the perspective offsets
NormalizeRotation(rot, offset) ==
    <<rot[1] * Cos(offset[2]) + rot[3] * Sin(offset[2]),
      rot[2] * Cos(offset[1]) - rot[3] * Sin(offset[1]),
      rot[3] * Cos(offset[1]) * Cos(offset[2])
         - rot[2] * Sin(offset[1]) - rot[1] * Sin(offset[2])>>

\* the coarse grids sampled: three x angles, one y and one z angle
CoarseSpaces ==
    {[x |-> Axis(-i, i, i), y |-> Axis(0, 0, j), z |-> Axis(0, 0, i)] :
        i \in 1..MaxCoarseIncrement, j \in 1..MaxCoarseIncrement}

InitRotation ==
    /\ RotationOthersIdle
    /\ rotPc = "coarse"
    /\ initialSearchSpace \in CoarseSpaces
    /\ spin_offset_angle \in OffsetDegrees \X OffsetDegrees
    /\ best_candidate_index = -1
    /\ coarseWinner = <<>>
    /\ rotationResult = <<0, 0, 0>>

\* the coarse pass: without a winner GetBallRotation returns its
\* default-constructed result
RotationCoarsePass(r0, r1) ==
    /\ rotPc = "coarse"
    /\ LET candidates == ComputeCandidateAngleImages(initialSearchSpace).candidates
       IN  \E k \in DistinguishedPositions(Len(candidates)) :
             LET index == CompareCandidateAngleImages(
                              PassResults(Len(candidates), k, r0, r1))
             IN  /\ best_candidate_index' = index
                 /\ IF index < 0
                    THEN /\ rotPc' = "returned"
                         /\ UNCHANGED coarseWinner
                    ELSE /\ rotPc' = "fine"
                         /\ coarseWinner' = candidates[index + 1]
    /\ UNCHANGED <<initialSearchSpace, spin_offset_angle, rotationResult>>

\* the fine pass and the rest of GetBallRotation: best_rot_x/y/z stay 0
\* when the pass has no winner, and the result is their normalisation
RotationFinePass(r0, r1) ==
    /\ rotPc = "fine"
    /\ LET finalCandidates ==
               ComputeCandidateAngleImages(
                   FinalSearchSpace(coarseWinner, initialSearchSpace)).candidates
       IN  \E k \in DistinguishedPositions(Len(finalCandidates)) :
             LET index == CompareCandidateAngleImages(
                              PassResults(Len(finalCandidates), k, r0, r1))
                 best_rot == IF index >= 0 THEN finalCandidates[index + 1]
                             ELSE <<0, 0, 0>>
             IN  /\ best_candidate_index' = index
                 /\ rotationResult' = NormalizeRotation(best_rot, spin_offset_angle)
    /\ rotPc' = "returned"
    /\ UNCHANGED <<initialSearchSpace, spin_offset_angle, coarseWinner>>

NextRotation ==
    \/ \E r0, r1 \in ComparisonResults : RotationCoarsePass(r0, r1) /\ UNCHANGED rotOthers
    \/ \E r0, r1 \in ComparisonResults : RotationFinePass(r0, r1) /\ UNCHANGED rotOthers

SpecRotation == InitRotation /\ [][NextRotation]_vars

\* C17: when the coarse pass had a winner and the fine pass has none, the
\* rotation returned is the one derived from the coarse winner.
C17_CoarseResultStands ==
    (rotPc = "returned" /\ coarseWinner # <<>> /\ best_candidate_index < 0) =>
        rotationResult = NormalizeRotation(coarseWinner, spin_offset_angle)

\* --------------------------------------------- Canny threshold tuning
MaxCannyLoops == 32

kMinFinalizationCannyMean == 8
kMaxFinalizationCannyMean == 15
kCannyToleranceIncrement == 4

\* the `cannyIterations > 30` of the safety net
CannyIterationLimit == 30

\* means an edge image may have: blank, in range, busy
EdgeMeans == {0, 10, 40}

InitCanny ==
    /\ CannyOthersIdle
    /\ cannyPc = "loop"
    /\ lowThresh = 30
    /\ highThresh = 70
    /\ cannyIterations = 0
    /\ edgeDetectDone = FALSE
    /\ edgeDetectionFailed = FALSE
    /\ cannyLoops = 0
    /\ ellipseReturned = "none"

\* one pass through the body of `while (!edgeDetectDone)`; mean is the
\* mean of the edge image Canny produced with the current thresholds.
\* Nothing in the body assigns cannyIterations.
CannyIteration(mean) ==
    /\ cannyPc = "loop"
    /\ ~edgeDetectDone
    /\ cannyLoops < MaxCannyLoops
    /\ cannyLoops' = cannyLoops + 1
    /\ IF mean > kMaxFinalizationCannyMean
       THEN /\ lowThresh' = lowThresh + kCannyToleranceIncrement
            /\ highThresh' = highThresh + kCannyToleranceIncrement
       ELSE IF mean < kMinFinalizationCannyMean
       THEN /\ lowThresh' = lowThresh - kCannyToleranceIncrement
            /\ highThresh' = highThresh - kCannyToleranceIncrement
       ELSE UNCHANGED <<lowThresh, highThresh>>
    /\ edgeDetectionFailed' = (edgeDetectionFailed \/ cannyIterations > CannyIterationLimit)
    /\ edgeDetectDone' =
          \/ ~(mean > kMaxFinalizationCannyMean \/ mean < kMinFinalizationCannyMean)
          \/ cannyIterations > CannyIterationLimit
    /\ UNCHANGED <<cannyPc, cannyIterations, ellipseReturned>>

\* the loop has ended: a failed edge detection returns the empty
\* rectangle, otherwise the contour fit goes ahead
CannyLeaveLoop ==
    /\ cannyPc = "loop"
    /\ edgeDetectDone
    /\ cannyPc' = "returned"
    /\ ellipseReturned' = IF edgeDetectionFailed THEN "empty" ELSE "fitted"
    /\ UNCHANGED <<lowThresh, highThresh, cannyIterations, edgeDetectDone,
                   edgeDetectionFailed, cannyLoops>>

NextCanny ==
    \/ \E mean \in EdgeMeans : CannyIteration(mean) /\ UNCHANGED cannyOthers
    \/ CannyLeaveLoop /\ UNCHANGED cannyOthers

SpecCanny == InitCanny /\ [][NextCanny]_vars

\* C21: the tuning loop makes at most 30 passes, and a loop that used its
\* budget without an in-range mean has stopped with the empty ellipse.
C21_AtMostThirtyIterations ==
    /\ cannyLoops <= CannyIterationLimit
    /\ (cannyLoops >= CannyIterationLimit /\ cannyPc = "returned" /\ edgeDetectionFailed)
          => ellipseReturned = "empty"

\* ------------------------------------------- candidate ranking in isolation
MaxScoreCircles == 3

\* circle radii handed to the filter, in half pixels: 9, 10 and 11 pixels
ScoreRadii == {18, 20, 22}

InitScore ==
    /\ ScoreOthersIdle
    /\ scoreCircles \in
          UNION {[1..n -> {[x |-> 0, y |-> 0, r |-> r] : r \in ScoreRadii}] :
                    n \in 1..MaxScoreCircles}
    /\ scoreColour \in [1..MaxScoreCircles -> ColorScores]
    /\ scoreMode \in Modes \ {"kUnknown"}
    /\ scoreColorExists \in BOOLEAN
    /\ foundList = <<>>
    /\ finalList = <<>>
    /\ rankedBalls = <<>>
    /\ scoreResult = FALSE
    /\ scoreDone = FALSE

\* a call of FilterAndScoreCandidates on a non-empty circle list
CallFilterAndScoreCandidates ==
    /\ ~scoreDone
    /\ LET scoring == scoreColorExists \/ scoreMode = "kPutting"
           found == FoundCircleList(scoreCircles, scoreColour, scoring)
       IN  /\ foundList' = found
           /\ IF found = <<>>
              THEN /\ finalList' = <<>>
                   /\ rankedBalls' = <<>>
                   /\ scoreResult' = FALSE
              ELSE \E final \in FinalCandidates(found, scoreMode, scoreColorExists) :
                      /\ finalList' = final
                      /\ rankedBalls' = BallsOf(final)
                      /\ scoreResult' = (final # <<>>)
    /\ scoreDone' = TRUE
    /\ UNCHANGED <<scoreCircles, scoreColour, scoreMode, scoreColorExists, scoreOthers>>

NextScore == CallFilterAndScoreCandidates

SpecScore == InitScore /\ [][NextScore]_vars

\* the lowest score among the scored candidates
BestScore ==
    CHOOSE v \in {foundList[k].calculated_color_difference : k \in 1..Len(foundList)} :
        \A k \in 1..Len(foundList) : v <= foundList[k].calculated_color_difference

\* the candidates whose score is within the colour tolerance of the best
ColourTolerant ==
    {k \in 1..Len(foundList) :
        foundList[k].calculated_color_difference
            <= BestScore + CANDIDATE_BALL_COLOR_TOLERANCE}

\* C22: the returned balls carry the ranks 0, 1, ..., n-1 in this order,
\* and the ball of rank 0 is the best candidate of the active mode: the
\* lowest score in a non-strobed mode, the largest radius among the
\* colour-tolerant candidates in strobed mode.
C22_RankZeroIsBest ==
    (scoreDone /\ scoreResult) =>
        /\ \A k \in 1..Len(rankedBalls) : rankedBalls[k].quality_ranking = k - 1
        /\ IF scoreMode = "kStrobed"
           THEN /\ finalList[1].index \in {foundList[k].index : k \in ColourTolerant}
                /\ \A k \in ColourTolerant :
                      foundList[k].found_radius <= finalList[1].found_radius
           ELSE finalList[1].calculated_color_difference = BestScore

\* C24: two returned candidates that tie on the sort key of the active
\* mode keep the relative order they had in the Hough output.
C24_TiesKeepHoughOrder ==
    (scoreDone /\ scoreResult) =>
        \A a, b \in 1..Len(finalList) :
            (/\ a < b
             /\ IF scoreMode = "kStrobed"
                THEN finalList[a].found_radius = finalList[b].found_radius
                ELSE finalList[a].calculated_color_difference
                        = finalList[b].calculated_color_difference)
            => finalList[a].index < finalList[b].index

\* ------------------------------------ further claims about the adaptive loop
\* an iteration of the adaptive loop ran on a non-empty retained set and
\* its Hough invocation found no circle: the iteration either returned
\* the prior result or replaced the retained set by the empty one
FoundNoneAfterSome ==
    /\ pc = "loop"
    /\ iterations' = iterations + 1
    /\ circles # <<>>
    /\ (lastStep' = "return_prior" \/ circles' = <<>>)

\* C23: an iteration that finds no circle while the prior count was
\* positive ends the loop and hands on the prior, non-empty circle set.
C23_ReturnsPriorOnNone ==
    [][FoundNoneAfterSome =>
          /\ done'
          /\ circles' = circles
          /\ finalNumberOfFoundCircles' = Len(circles)]_vars

\* the bundle of the mode being searched
LoopParams == GetParamsForMode(search_mode, cfg)

\* the loop is about to run cv::HoughCircles with currentParam2
AboutToRunHough == pc = "loop" /\ ~done

MaxSlices == 8

\* most tiles in which the network reports anything
MaxSeenTiles == 2

\* kSAHIOverlapRatio is held as a multiple of 1 / RatioDen
RatioDen == 4

\* kONNXNMSThreshold = 0.4
kONNXNMSThreshold == <<2, 5>>

\* kONNXConfidenceThreshold = 0.5 in units of one half
kONNXConfidenceThreshold == 1

SahiImages == {[cols |-> 4, rows |-> 2]}

SliceWidths == {2, 4}

SliceHeights == {1, 2}

\* the balls of a scene: bounding box and the confidence the network gives
SceneBallA == [box |-> [x |-> 1, y |-> 0, width |-> 1, height |-> 1], conf |-> 2]

SceneBallB == [box |-> [x |-> 3, y |-> 1, width |-> 1, height |-> 1], conf |-> 1]

Scenes == {{SceneBallA}, {SceneBallA, SceneBallB}}

SahiPaths == {"DetectBallsONNXRuntime", "DetectBallsOpenCVDNN"}

\* overlap = static_cast<int>(kSAHISliceWidth * kSAHIOverlapRatio)
SahiOverlap == (kSAHISliceWidth * kSAHIOverlapRatio) \div RatioDen

\* the step of the inner loop over x
ColStride == kSAHISliceWidth - SahiOverlap

\* the step of the outer loop over y
RowStride == kSAHISliceHeight - SahiOverlap

\* the rectangle of the tile at (x, y)
SliceRect(x, y) ==
    [x |-> x, y |-> y,
     width |-> Min(kSAHISliceWidth, sahiImage.cols - x),
     height |-> Min(kSAHISliceHeight, sahiImage.rows - y)]

\* cv::Mat::operator()(Rect) accepts the rectangle
RoiInsideImage(r) ==
    /\ 0 <= r.x /\ 0 <= r.width /\ r.x + r.width <= sahiImage.cols
    /\ 0 <= r.y /\ 0 <= r.height /\ r.y + r.height <= sahiImage.rows

\* a box lies inside a tile
BoxInside(b, r) ==
    /\ r.x <= b.x /\ b.x + b.width <= r.x + r.width
    /\ r.y <= b.y /\ b.y + b.height <= r.y + r.height

\* a set of detections as a sequence, highest confidence first
RECURSIVE SetToSeq(_)
SetToSeq(S) ==
    IF S = {} THEN <<>>
    ELSE LET e == CHOOSE a \in S : \A b \in S : a.conf >= b.conf
         IN <<e>> \o SetToSeq(S \ {e})

\* what the network reports on one tile, in tile coordinates: the balls
\* that lie wholly inside the tile
TileDetections(r, balls) ==
    SetToSeq({[box |-> [b.box EXCEPT !.x = b.box.x - r.x, !.y = b.box.y - r.y],
               conf |-> b.conf] : b \in {c \in balls : BoxInside(c.box, r)}})

\* a tile detection moved back to image coordinates
ToImage(det, r) ==
    [box |-> [det.box EXCEPT !.x = det.box.x + r.x, !.y = det.box.y + r.y],
     conf |-> det.conf]

\* the bounds check of the OpenCV DNN path
DnnBoundsOk(det) ==
    /\ det.box.width > 0 /\ det.box.height > 0
    /\ det.box.x >= 0 /\ det.box.y >= 0
    /\ det.box.x + det.box.width <= sahiImage.cols
    /\ det.box.y + det.box.height <= sahiImage.rows

RECURSIVE MergeTiles(_, _, _, _)
\* the detections of the tiles from k on, tile after tile, in image
\* coordinates; seen is the set of tiles in which the network reports
MergeTiles(tiles, balls, seen, k) ==
    IF k > Len(tiles) THEN <<>>
    ELSE (IF k \in seen
          THEN [j \in 1..Len(TileDetections(tiles[k], balls)) |->
                   ToImage(TileDetections(tiles[k], balls)[j], tiles[k])]
          ELSE <<>>)
         \o MergeTiles(tiles, balls, seen, k + 1)

\* the detections picked by SingleClassNMS
NmsKept(dets, idx) == [k \in 1..Len(idx) |-> dets[idx[k]]]

\* the merged detections without the final suppression
NmsSkipped(dets) == {dets}

\* the suppression of the OpenCV DNN path over the merged detections
NmsOverMerged(dets) ==
    {NmsKept(dets, idx) :
        idx \in SingleClassNMS([k \in 1..Len(dets) |-> dets[k].box],
                               [k \in 1..Len(dets) |-> dets[k].conf],
                               kONNXConfidenceThreshold, kONNXNMSThreshold)}

InitSahi ==
    /\ SahiOthersIdle
    /\ sahiPath \in SahiPaths
    /\ kSAHISliceWidth \in SliceWidths
    /\ kSAHISliceHeight \in SliceHeights
    /\ kSAHIOverlapRatio \in 0..(RatioDen - 1)
    /\ sahiImage \in SahiImages
    /\ sceneBalls \in Scenes
    /\ sliceX = 0
    /\ sliceY = 0
    /\ slices = <<>>
    /\ sahiPc = "slice"
    /\ mergedDetections = <<>>
    /\ sahiDetections = <<>>
    /\ sahiResult = "none"

\* one pass of the body of the tile loops
SahiPushSlice ==
    /\ sahiPc = "slice"
    /\ sliceY < sahiImage.rows
    /\ Len(slices) < MaxSlices
    /\ sahiPath = "DetectBallsONNXRuntime" => RoiInsideImage(SliceRect(sliceX, sliceY))
    /\ slices' = Append(slices, SliceRect(sliceX, sliceY))
    /\ IF sliceX + ColStride < sahiImage.cols
       THEN sliceX' = sliceX + ColStride /\ sliceY' = sliceY
       ELSE sliceX' = 0 /\ sliceY' = sliceY + RowStride
    /\ UNCHANGED <<sahiPath, kSAHISliceWidth, kSAHISliceHeight, kSAHIOverlapRatio,
                   sahiImage, sceneBalls, sahiPc, mergedDetections, sahiDetections,
                   sahiResult, sahiOthers>>

\* the ONNX Runtime path takes a tile that is not inside the image:
\* cv::Mat::operator() throws and the handler returns false
SahiSliceThrows ==
    /\ sahiPc = "slice"
    /\ sliceY < sahiImage.rows
    /\ sahiPath = "DetectBallsONNXRuntime"
    /\ ~RoiInsideImage(SliceRect(sliceX, sliceY))
    /\ sahiPc' = "returned"
    /\ sahiResult' = FALSE
    /\ UNCHANGED <<sahiPath, kSAHISliceWidth, kSAHISliceHeight, kSAHIOverlapRatio,
                   sahiImage, sceneBalls, sliceX, sliceY, slices, mergedDetections,
                   sahiDetections, sahiOthers>>

\* the rest of the tiled path once the tile loops have ended: inference on
\* every tile, the merge and what each path does with the merged list
SahiDetect ==
    /\ sahiPc = "slice"
    /\ sliceY >= sahiImage.rows
    /\ \E seen \in SUBSET (1..Len(slices)) :
          /\ Cardinality(seen) <= MaxSeenTiles
          /\ LET merged == MergeTiles(slices, sceneBalls, seen, 1)
                 kept == IF sahiPath = "DetectBallsOpenCVDNN"
                         THEN SelectSeq(merged, DnnBoundsOk)
                         ELSE merged
             IN  /\ mergedDetections' = kept
                 /\ sahiDetections' \in
                       IF sahiPath = "DetectBallsOpenCVDNN"
                       THEN NmsOverMerged(kept)
                       ELSE NmsSkipped(kept)
    /\ sahiResult' = (sahiDetections' # <<>>)
    /\ sahiPc' = "returned"
    /\ UNCHANGED <<sahiPath, kSAHISliceWidth, kSAHISliceHeight, kSAHIOverlapRatio,
                   sahiImage, sceneBalls, sliceX, sliceY, slices, sahiOthers>>

NextSahi ==
    \/ SahiPushSlice
    \/ SahiSliceThrows
    \/ SahiDetect

SpecSahi == InitSahi /\ [][NextSahi]_vars

\* C25: on the tiled path no two detections handed back overlap with
\* IoU > nms_threshold.
C25_NoOverlapAfterMerge ==
    sahiPc = "returned" =>
        \A i, j \in 1..Len(sahiDetections) :
            i # j => ~IoUExceeds(sahiDetections[i].box, sahiDetections[j].box,
                                 kONNXNMSThreshold)

\* C30: while the tile loops run, the row and column steps are strictly
\* positive.
C30_StridesPositive ==
    sahiPc = "slice" => (RowStride > 0 /\ ColStride > 0)

\* ------------------------------------ bulk-apply over pixels and candidates
\* threads cv::Mat::forEach runs its callback on
NumForEachWorkers == 2

\* rows of the dimple image
MaxImageRows == 2

\* most angles on the x and z axes of the candidate grid
MaxGridAxis == 2

\* spin_analyzer.cpp: static const bool kSerializeOpsForDebug = false
kSerializeOpsForDebug == FALSE

\* candidate_elements_mat_size: x, y and z sizes
CandGrids == {<<xs, 1, zs>> : xs \in 1..MaxGridAxis, zs \in 1..MaxGridAxis}

NumCandidates == candGrid[1] * candGrid[2] * candGrid[3]

\* the index stored at (x, y, z) of the candidate matrix, filled in loop order
ElementIndex(x, y, z) == (x * candGrid[2] + y) * candGrid[3] + z

\* cv::Mat::forEach hands whole lines (all but the last dimension) to its
\* workers; in the debug build the loops run on the calling thread
ForEachWorkers == IF kSerializeOpsForDebug THEN 1 ELSE NumForEachWorkers

\* the lines of the candidate matrix
CandidateLines == {<<x, y>> : x \in 0..(candGrid[1] - 1), y \in 0..(candGrid[2] - 1)}

\* the candidates that are being projected or candidatesCompared
CandidatesInFlight ==
    (IF rowsActive # {} THEN {projCandidate} ELSE {})
        \union {ElementIndex(e[1], e[2], e[3]) : e \in cmpActive}

InitPar ==
    /\ ParOthersIdle
    /\ parPc = "project"
    /\ candGrid \in CandGrids
    /\ projCandidate = 0
    /\ projStatic = -1
    /\ rowsTodo = {}
    /\ rowsActive = {}
    /\ cmpStaticSet = FALSE
    /\ linesTodo = {}
    /\ cmpActive = {}
    /\ candidatesCompared = {}

\* Project2dImageTo3dBall up to the bulk-apply: projectionOp::setup
ProjectSetup ==
    /\ parPc = "project"
    /\ projStatic' = projCandidate
    /\ rowsTodo' = 0..(MaxImageRows - 1)
    /\ parPc' = "project_apply"
    /\ UNCHANGED <<candGrid, projCandidate, rowsActive, cmpStaticSet, linesTodo,
                   cmpActive, candidatesCompared, parOthers>>

\* a worker of image_gray.forEach starts on a row
ProjectRowBegin ==
    /\ parPc = "project_apply"
    /\ Cardinality(rowsActive) < ForEachWorkers
    /\ \E r \in rowsTodo :
          /\ rowsTodo' = rowsTodo \ {r}
          /\ rowsActive' = rowsActive \union {r}
    /\ UNCHANGED <<parPc, candGrid, projCandidate, projStatic, cmpStaticSet,
                   linesTodo, cmpActive, candidatesCompared, parOthers>>

\* a worker finishes its row
ProjectRowEnd ==
    /\ parPc = "project_apply"
    /\ \E r \in rowsActive : rowsActive' = rowsActive \ {r}
    /\ UNCHANGED <<parPc, candGrid, projCandidate, projStatic, rowsTodo,
                   cmpStaticSet, linesTodo, cmpActive, candidatesCompared, parOthers>>

\* forEach returns: the loops of ComputeCandidateAngleImages go on to the
\* next candidate, or the comparison starts
ProjectJoin ==
    /\ parPc = "project_apply"
    /\ rowsTodo = {}
    /\ rowsActive = {}
    /\ projCandidate' = projCandidate + 1
    /\ parPc' = IF projCandidate + 1 < NumCandidates THEN "project" ELSE "compare"
    /\ UNCHANGED <<candGrid, projStatic, rowsTodo, rowsActive, cmpStaticSet,
                   linesTodo, cmpActive, candidatesCompared, parOthers>>

\* CompareCandidateAngleImages up to the bulk-apply: ImgComparisonOp::setup
CompareSetup ==
    /\ parPc = "compare"
    /\ cmpStaticSet' = TRUE
    /\ linesTodo' = CandidateLines
    /\ parPc' = "compare_apply"
    /\ UNCHANGED <<candGrid, projCandidate, projStatic, rowsTodo, rowsActive,
                   cmpActive, candidatesCompared, parOthers>>

\* a worker of candidate_elements_mat.forEach starts on a line
CompareLineBegin ==
    /\ parPc = "compare_apply"
    /\ Cardinality(cmpActive) < ForEachWorkers
    /\ \E l \in linesTodo :
          /\ linesTodo' = linesTodo \ {l}
          /\ cmpActive' = cmpActive \union {<<l[1], l[2], 0>>}
    /\ UNCHANGED <<parPc, candGrid, projCandidate, projStatic, rowsTodo, rowsActive,
                   cmpStaticSet, candidatesCompared, parOthers>>

\* ImgComparisonOp returns for one element; the worker goes on along its line
CompareElementEnd ==
    /\ parPc = "compare_apply"
    /\ \E e \in cmpActive :
          /\ candidatesCompared' = candidatesCompared \union {ElementIndex(e[1], e[2], e[3])}
          /\ cmpActive' =
                IF e[3] + 1 < candGrid[3]
                THEN (cmpActive \ {e}) \union {<<e[1], e[2], e[3] + 1>>}
                ELSE cmpActive \ {e}
    /\ UNCHANGED <<parPc, candGrid, projCandidate, projStatic, rowsTodo, rowsActive,
                   cmpStaticSet, linesTodo, parOthers>>

\* forEach returns and the best candidate is picked
CompareJoin ==
    /\ parPc = "compare_apply"
    /\ linesTodo = {}
    /\ cmpActive = {}
    /\ parPc' = "done"
    /\ UNCHANGED <<candGrid, projCandidate, projStatic, rowsTodo, rowsActive,
                   cmpStaticSet, linesTodo, cmpActive, candidatesCompared, parOthers>>

NextPar ==
    \/ ProjectSetup
    \/ ProjectRowBegin
    \/ ProjectRowEnd
    \/ ProjectJoin
    \/ CompareSetup
    \/ CompareLineBegin
    \/ CompareElementEnd
    \/ CompareJoin

SpecPar == InitPar /\ [][NextPar]_vars

\* C26: at no time are two different candidates being projected or
\* candidatesCompared, and no bulk-apply is running when the static state is set up.
C26_CandidatesSerialised ==
    /\ Cardinality(CandidatesInFlight) <= 1
    /\ parPc \in {"project", "compare"} => (rowsActive = {} /\ cmpActive = {})

\* ------------------------------------------------------------- IsolateBall
\* largest x and y of a ball centre
MaxBallCentre == 11

\* measured_radius_pixels_ is held in units of 1 / RadiusUnit pixel
RadiusUnit == 20

\* ballSurroundMult = 1.05f as a multiple of 1 / RadiusUnit
ballSurroundMult == 21

\* the radii of the balls: 2, 3 and 3.4 pixels
IsoRadii == {40, 60, 68}

IsoImages == {[cols |-> 12, rows |-> 12]}

\* std::round of the non-negative value num / den
RoundFraction(num, den) == (2 * num + den) \div (2 * den)

\* r1 = (int)std::round(measured_radius_pixels_ * ballSurroundMult)
SurroundRadius(radius) == RoundFraction(radius * ballSurroundMult, RadiusUnit * RadiusUnit)

\* rInc = (long)(r1 - measured_radius_pixels_)
RadiusIncrement(radius) == TruncDiv(SurroundRadius(radius) * RadiusUnit - radius, RadiusUnit)

\* std::round(rInc + measured_radius_pixels_)
RecentredCoordinate(radius) ==
    RoundFraction(RadiusIncrement(radius) * RadiusUnit + radius, RadiusUnit)

\* x1 (or y1) after the two adjustments that keep the rectangle inside
\* an image of the given extent
ClampedStart(centre, radius, extent) ==
    LET start == Max(0, centre - SurroundRadius(radius))
        side == 2 * SurroundRadius(radius)
    IN  IF start + side >= extent THEN extent - side - 1 ELSE start

\* the rectangle handed to CvUtils::GetSubImage
BallRect(ball, img) ==
    [x |-> ClampedStart(ball.x, ball.radius, img.cols),
     y |-> ClampedStart(ball.y, ball.radius, img.rows),
     width |-> 2 * SurroundRadius(ball.radius),
     height |-> 2 * SurroundRadius(ball.radius)]

InitIsolate ==
    /\ IsoOthersIdle
    /\ isoImage \in IsoImages
    /\ isoBall \in [x : 0..MaxBallCentre, y : 0..MaxBallCentre, radius : IsoRadii]
    /\ isoBallAfter = [x |-> 0, y |-> 0]
    /\ isoOffset = [x |-> 0, y |-> 0]
    /\ isoDone = FALSE

\* a call of SpinAnalyzer::IsolateBall
CallIsolateBall ==
    /\ ~isoDone
    /\ isoBallAfter' = [x |-> RecentredCoordinate(isoBall.radius),
                        y |-> RecentredCoordinate(isoBall.radius)]
    /\ LET got == GetSubImage(isoImage.cols, isoImage.rows, BallRect(isoBall, isoImage))
       IN isoOffset' = [x |-> got.ox, y |-> got.oy]
    /\ isoDone' = TRUE
    /\ UNCHANGED <<isoImage, isoBall, isoOthers>>

NextIsolate == CallIsolateBall

SpecIsolate == InitIsolate /\ [][NextIsolate]_vars

\* C27: after IsolateBall the new centre plus the sub-image origin is the
\* original centre.
C27_CentreReexpressed ==
    isoDone =>
        /\ isoBallAfter.x + isoOffset.x = isoBall.x
        /\ isoBallAfter.y + isoOffset.y = isoBall.y

\* --------------------------------------------- cleanup between detections
\* a thread enters CleanupONNXRuntime
CleanupBegin(t) ==
    /\ threadPc[t] = "idle"
    /\ threadCalls[t] < MaxThreadCalls
    /\ threadOp' = [threadOp EXCEPT ![t] = "CleanupONNXRuntime"]
    /\ threadPc' = [threadPc EXCEPT ![t] = "cleanup_lock"]
    /\ threadCalls' = [threadCalls EXCEPT ![t] = @ + 1]
    /\ fastPathTaken' = fastPathTaken \ {t}
    /\ UNCHANGED <<onnx_detector_mutex_, constructedBy, initSucceeded, nnVars>>

\* std::lock_guard<std::mutex> lock(onnx_detector_mutex_) of the cleanup
CleanupLock(t) ==
    /\ threadPc[t] = "cleanup_lock"
    /\ onnx_detector_mutex_ = 0
    /\ onnx_detector_mutex_' = t
    /\ threadPc' = [threadPc EXCEPT ![t] = "cleanup_check"]
    /\ UNCHANGED <<threadOp, threadCalls, constructedBy, fastPathTaken,
                   initSucceeded, nnVars>>

\* the read of the flag inside the mutex; nothing to do when it is unset
CleanupCheck(t) ==
    /\ threadPc[t] = "cleanup_check"
    /\ IF onnx_detector_initialized_
       THEN /\ threadPc' = [threadPc EXCEPT ![t] = "cleanup_reset"]
            /\ UNCHANGED onnx_detector_mutex_
       ELSE /\ threadPc' = [threadPc EXCEPT ![t] = "idle"]
            /\ onnx_detector_mutex_' = 0
    /\ UNCHANGED <<threadOp, threadCalls, constructedBy, fastPathTaken,
                   initSucceeded, nnVars>>

\* onnx_detector_.reset()
CleanupReset(t) ==
    /\ threadPc[t] = "cleanup_reset"
    /\ onnx_detector_' = "null"
    /\ threadPc' = [threadPc EXCEPT ![t] = "cleanup_store"]
    /\ UNCHANGED <<threadOp, threadCalls, onnx_detector_mutex_, constructedBy,
                   fastPathTaken, initSucceeded, kONNXBackend,
                   kONNXRuntimeAutoFallback, onnx_detector_initialized_,
                   yolo_model_loaded_, handlesConstructed, calls, attempted,
                   backendOk, dispatchResult>>

\* onnx_detector_initialized_.store(false, std::memory_order_release) and
\* the end of the cleanup
CleanupStore(t) ==
    /\ threadPc[t] = "cleanup_store"
    /\ onnx_detector_initialized_' = FALSE
    /\ onnx_detector_mutex_' = 0
    /\ threadPc' = [threadPc EXCEPT ![t] = "idle"]
    /\ UNCHANGED <<threadOp, threadCalls, constructedBy, fastPathTaken,
                   initSucceeded, kONNXBackend, kONNXRuntimeAutoFallback,
                   onnx_detector_, yolo_model_loaded_, handlesConstructed, calls,
                   attempted, backendOk, dispatchResult>>

NextNeuralCleanup ==
    \/ \E t \in Threads : ThreadBegin(t) /\ UNCHANGED raceOthers
    \/ \E t \in Threads : ThreadCheckFlag(t) /\ UNCHANGED raceOthers
    \/ \E t \in Threads : ThreadLock(t) /\ UNCHANGED raceOthers
    \/ \E t \in Threads : ThreadRecheck(t) /\ UNCHANGED raceOthers
    \/ \E t \in Threads : ThreadConstruct(t) /\ UNCHANGED raceOthers
    \/ \E t \in Threads : ThreadInitialize(t) /\ UNCHANGED raceOthers
    \/ \E t \in Threads : ThreadStore(t) /\ UNCHANGED raceOthers
    \/ \E t \in Threads : ThreadUnlock(t) /\ UNCHANGED raceOthers
    \/ \E t \in Threads : ThreadDetect(t) /\ UNCHANGED raceOthers
    \/ \E t \in Threads : CleanupBegin(t) /\ UNCHANGED raceOthers
    \/ \E t \in Threads : CleanupLock(t) /\ UNCHANGED raceOthers
    \/ \E t \in Threads : CleanupCheck(t) /\ UNCHANGED raceOthers
    \/ \E t \in Threads : CleanupReset(t) /\ UNCHANGED raceOthers
    \/ \E t \in Threads : CleanupStore(t) /\ UNCHANGED raceOthers

SpecNeuralCleanup == InitNeuralThreads /\ [][NextNeuralCleanup]_vars

\* thread t runs inference on the shared handle in this step
DereferencesHandle(t) == threadPc[t] = "detect" /\ threadPc'[t] = "idle"

\* C29: whenever a thread dereferences the shared detector handle to run
\* inference, the handle is non-null and successfully initialised.
C29_HandleReadyWhenDereferenced ==
    [][\A t \in Threads : DereferencesHandle(t) => onnx_detector_ = "ready"]_vars

====
